---- MODULE Spec2Model ----
(***************************************************************************)
(* A state-machine model of the c8ylp local proxy runtime:                 *)
(*   - WebsocketClient (c8ylp/websocket_client/ws_client.py): connect,     *)
(*     reconnect, stop, send_binary, the websocket callbacks and the       *)
(*     connection stability timer;                                         *)
(*   - StdioHandler (c8ylp/tcp_socket/stdio_server.py) and TCPServer       *)
(*     (c8ylp/tcp_socket/tcp_server.py): the local client read loops;      *)
(*   - the listener shutdown operations and start_proxy /                  *)
(*     run_proxy_in_background (c8ylp/cli/core.py).                        *)
(* The websocket-client library (WebSocketApp.run_forever) is modelled as  *)
(* the thread that connect() starts: it performs the handshake and then    *)
(* invokes the registered callbacks on_open, on_message, on_error and      *)
(* on_close; on_close follows every end of run_forever.                    *)
(***************************************************************************)
EXTENDS Integers, Sequences, FiniteSets, TLC

VARIABLES
    ws,     \* the WebsocketClient object's fields
    app,    \* the WebSocketApp / run_forever thread started by connect()
    h,      \* the local client handler (StdioHandler / TCPServer) state
    g,      \* history of the run: counters and logs the properties read
    lst,    \* the listener objects the shutdown operations act on
    px,     \* start_proxy / run_proxy_in_background state
    env,    \* the workload of the run: what the peers will do at most
    cli,    \* pre_start_checks: the REST client, the device and the result
    fs      \* the env file, os.environ and the save_env calls made

vars == <<ws, app, h, g, lst, px, env, cli, fs>>

(***************************************************************************)
(* Bounds of the model.                                                    *)
(***************************************************************************)
\* connect() calls explored per run
MaxDials == 4
\* chunks the local client writes on one connection
MaxReads == 2
\* frames the upstream delivers per run
MaxFrames == 2
\* the stability period (_connection_stable_sec), in clock ticks of the model
StableTicks == 2
\* consecutive receive timeouts explored on one connection
MaxIdle == 2
\* stop()/shutdown() calls explored per listener
MaxStops == 2

\* values of max_retries explored (core.py passes 2; options.py yields -1 or 5)
Retries == {-1, 0, 1, 2}
\* errors the library reports through on_error
HandshakeErrors == {"401", "status", "timeout", "other"}
LossErrors == {"none", "timeout", "other"}

(***************************************************************************)
(* The operations below take and return a "world": the record of the       *)
(* objects one operation can touch, so that a method that calls another    *)
(* (on_close -> reconnect -> connect) is the composition of operators.     *)
(***************************************************************************)
World == [ws |-> ws, app |-> app, h |-> h, g |-> g]

(***************************************************************************)
(* websocket-client library: WebSocketApp.close().  keep_running is        *)
(* cleared and the socket closed; run_forever then ends and its teardown   *)
(* invokes on_close.  Closing an application that already ended does       *)
(* nothing.                                                                *)
(***************************************************************************)
WebSocketAppClose(w) ==
    IF w.app.st \in {"dialing", "open"}
    THEN [w EXCEPT !.app = [st |-> "lost", err |-> "none"],
                   !.g.failed = TRUE,
                   !.g.stableAtLoss = (w.app.st = "open" /\ w.g.openAge >= StableTicks)]
    ELSE w

\* StdioHandler.shutdown on a handler record: _reader is None before
\* serve_forever opened it, and None.close() raises AttributeError
\* before the writer is reached.
StdioShutdown(hr) ==
    IF hr.reader = "none"
    THEN [hr EXCEPT !.shutdown_event = TRUE, !.raised = TRUE]
    ELSE [hr EXCEPT !.shutdown_event = TRUE, !.reader = "closed", !.writer = "closed"]

\* WebsocketClient.shutdown_request(): the callable the handler installed
\* (StdioHandler.serve_forever installs self.shutdown).
shutdown_request(w) ==
    [w EXCEPT !.h = StdioShutdown(w.h), !.g.shutdownReqs = @ + 1]

\* WebsocketClient.stop, first statement: close the application held
stop_close(w) == IF w.ws.web_socket THEN WebSocketAppClose(w) ELSE w

\* WebsocketClient.stop, second statement: self.web_socket = None
stop_clear(w) == [w EXCEPT !.ws.web_socket = FALSE]

\* WebsocketClient.stop, run without another thread in between
stop(w) == stop_clear(stop_close(w))

(***************************************************************************)
(* The URL connect() dials.  A URL is a sequence of pieces; the scheme     *)
(* words are spelled so that "http" is a prefix of "https" and "ws" of     *)
(* "wss": "https" is <<"http", "s">> and "wss" is <<"ws", "s">>.           *)
(***************************************************************************)
HTTP == <<"http">>
HTTPS == <<"http", "s">>
WSS == <<"ws", "s">>
Sep == <<"://">>

\* str.startswith
startswith(s, p) == Len(s) >= Len(p) /\ SubSeq(s, 1, Len(p)) = p

\* str.replace: every occurrence of old, from the left, without overlap
RECURSIVE replace(_, _, _)
replace(s, old, new) ==
    IF Len(s) < Len(old) THEN s
    ELSE IF SubSeq(s, 1, Len(old)) = old
         THEN new \o replace(SubSeq(s, Len(old) + 1, Len(s)), old, new)
         ELSE <<Head(s)>> \o replace(Tail(s), old, new)

\* connect(): the rewrite of self.host
connect_host(hst) ==
    IF startswith(hst, HTTPS) THEN replace(hst, HTTPS, WSS)
    ELSE IF startswith(hst, HTTP) THEN replace(hst, HTTP, WSS)
    ELSE IF ~startswith(hst, WSS \o Sep) THEN WSS \o Sep \o hst
    ELSE hst

\* connect(): the f-string that builds the URL from host, device id and
\* configuration id
connect_url(hst, device_id, config_id) ==
    hst \o <<"/service/remoteaccess/client/", device_id,
             "/configurations/", config_id>>

\* connect() without the attempt counted
connectNoCount(w) ==
    [w EXCEPT !.ws.ws_open_event = FALSE,
              !.ws.host = connect_host(@),
              !.ws.url = connect_url(connect_host(w.ws.host),
                                     w.ws.device_id, w.ws.config_id),
              !.ws.web_socket = TRUE,
              !.app = [st |-> "dialing", err |-> "none"],
              !.g.dials = @ + 1,
              !.g.dialsAfterFail = IF w.g.failed THEN @ + 1 ELSE @,
              !.g.dialAfter401 = @ \/ w.g.saw401,
              !.g.dialAfterStop = @ \/ w.g.stopped,
              !.g.dialWhileLive = @ \/ w.app.st # "none",
              !.g.openAge = 0]

\* WebsocketClient.connect: clears the open event, counts the attempt,
\* builds a new WebSocketApp and starts its run_forever thread.
connect(w) ==
    [w EXCEPT !.ws.ws_open_event = FALSE,
              !.ws.connection_attempts = @ + 1,
              !.ws.host = connect_host(@),
              !.ws.url = connect_url(connect_host(w.ws.host),
                                     w.ws.device_id, w.ws.config_id),
              !.ws.web_socket = TRUE,
              !.app = [st |-> "dialing", err |-> "none"],
              !.g.dials = @ + 1,
              !.g.dialsAfterFail = IF w.g.failed THEN @ + 1 ELSE @,
              !.g.dialAfter401 = @ \/ w.g.saw401,
              !.g.dialAfterStop = @ \/ w.g.stopped,
              !.g.dialWhileLive = @ \/ w.app.st # "none",
              !.g.openAge = 0]

\* the budget test without the "max_retries > -1" guard
BudgetExhaustedAnySign(c) == c.connection_attempts >= c.max_retries

\* the retry budget test of reconnect()
BudgetExhausted(c) ==
    c.max_retries > -1 /\ c.connection_attempts >= c.max_retries

\* reconnect() that gives up without calling shutdown_request
reconnectSilent(w) ==
    LET w1 == IF w.ws.web_socket THEN WebSocketAppClose(w) ELSE w
        w2 == [w1 EXCEPT !.g.budgetSeen = w1.ws.connection_attempts,
                         !.g.evalStable = w1.g.stableAtLoss]
    IN  IF BudgetExhausted(w2.ws)
        THEN [w2 EXCEPT !.g.gaveUp = TRUE]
        ELSE connect([w2 EXCEPT !.ws.web_socket = FALSE])

\* WebsocketClient.reconnect
reconnect(w) ==
    LET w1 == IF w.ws.web_socket THEN WebSocketAppClose(w) ELSE w
        w2 == [w1 EXCEPT !.g.budgetSeen = w1.ws.connection_attempts,
                         !.g.evalStable = w1.g.stableAtLoss]
    IN  IF BudgetExhausted(w2.ws)
        THEN [(IF w2.ws.shutdown_request THEN shutdown_request(w2) ELSE w2)
                 EXCEPT !.g.gaveUp = TRUE]
        ELSE connect([w2 EXCEPT !.ws.web_socket = FALSE])

\* a timer callback that leaves the counter alone
resetNothing(w) == w

\* the timer callback reset_connection_attempts
reset_connection_attempts(w) ==
    [w EXCEPT !.ws.connection_attempts = 0]

\* WebsocketClient._reset_connection_attempts: arm the stability timer
\* unless one is already recorded
_reset_connection_attempts(w) ==
    IF w.ws.timer = "none"
    THEN [w EXCEPT !.ws.timer = "armed", !.ws.timerLeft = StableTicks]
    ELSE w

\* WebsocketClient._connection_timer_cancel
_connection_timer_cancel(w) ==
    IF w.ws.timer # "none"
    THEN [w EXCEPT !.ws.timer = "none", !.ws.timerLeft = 0]
    ELSE w

\* WebsocketClient._on_ws_open
_on_ws_open(w) ==
    [_reset_connection_attempts(w) EXCEPT !.ws.ws_open_event = TRUE]

\* WebsocketClient._on_ws_close
_on_ws_close(w) ==
    reconnect(_connection_timer_cancel([w EXCEPT !.ws.ws_open_event = FALSE]))

\* _on_ws_error that reconnects on a timeout while the application is
\* still running its teardown
_on_ws_errorReconnects(w, e) ==
    IF e = "401"
    THEN stop([w EXCEPT !.ws.ws_handshake_error = TRUE,
                        !.ws.ws_open_event = FALSE,
                        !.g.saw401 = TRUE])
    ELSE IF e = "timeout" THEN connect(stop(w))
    ELSE w

\* WebsocketClient._on_ws_error; "401" and "status" are errors that carry a
\* status_code, "timeout" is WebSocketTimeoutException
_on_ws_error(w, e) ==
    IF e = "401"
    THEN stop([w EXCEPT !.ws.ws_handshake_error = TRUE,
                        !.ws.ws_open_event = FALSE,
                        !.g.saw401 = TRUE])
    ELSE IF e = "timeout" THEN stop(w)
    ELSE w

(***************************************************************************)
(* Outbound data path.                                                     *)
(***************************************************************************)
\* WebsocketClient.is_open
is_open(c) == c.ws_open_event

\* the websocket is usable for a send: the client holds the application,
\* the open event is set and the application's socket is connected
Usable(w) == w.ws.web_socket /\ w.ws.ws_open_event /\ w.app.st = "open"

\* the effect of sock.send_binary(data) on a connected socket: the chunk
\* in hand goes out as one binary frame
SockSend(w) == [w EXCEPT !.g.wsSent = Append(@, w.h.cur)]

\* web_socket.sock.send_binary(data): the frame goes out when the client
\* still holds the application and its socket is connected; otherwise the
\* attribute access or the send raises
SockSendOk(w) == w.ws.web_socket /\ w.app.st = "open"

\* the end of StdioHandler.serve_forever: the with block closes the reader
\* and the writer objects (closefd=False keeps the descriptors)
StdioLeave(w) ==
    [w EXCEPT !.h.pc = "done", !.h.reader = "closed", !.h.writer = "closed"]

\* StdioHandler.serve_forever up to the read loop
StdioEnter(w) ==
    LET w1 == [w EXCEPT !.h.reader = "open", !.h.writer = "open",
                        !.ws.shutdown_request = TRUE]
        w2 == IF ~is_open(w1.ws) THEN connect(w1) ELSE w1
    IN  [w2 EXCEPT !.h.request_error = FALSE,
                   !.ws.proxy_send_message = TRUE,
                   !.h.pc = "loop"]

\* one evaluation of the loop condition and of read(): r is what read()
\* gives, "data", "eof" (an empty read) or "oserror"
StdioReadStep(w, r) ==
    IF w.h.shutdown_event THEN StdioLeave(w)
    ELSE IF r = "data"
    THEN [w EXCEPT !.h.cur = w.g.nread + 1, !.h.pc = "sb_check",
                   !.g.nread = @ + 1, !.g.avail = Append(@, "pending")]
    ELSE IF r = "eof"
    THEN [stop_close([w EXCEPT !.ws.proxy_send_message = FALSE,
                               !.g.stopped = TRUE])
             EXCEPT !.h.pc = "stopping"]
    ELSE StdioLeave(w)

\* the handler's stop() after an empty read, second statement, and the
\* break out of the read loop
StdioStopStep(w) == StdioLeave(stop_clear(w))

\* the test of self.web_socket negated
send_binary_checkNegated(w) ==
    IF ~w.ws.web_socket THEN [w EXCEPT !.h.pc = "sb_wait"]
    ELSE [w EXCEPT !.h.pc = "loop"]

\* WebsocketClient.send_binary, first operand of the condition:
\* self.web_socket
send_binary_check(w) ==
    IF w.ws.web_socket THEN [w EXCEPT !.h.pc = "sb_wait"]
    ELSE [w EXCEPT !.h.pc = "loop"]

\* WebsocketClient.send_binary, second operand: is_ws_available(), the
\* wait on the open event; avail is the wait's result
send_binary_wait(w, avail) ==
    IF avail THEN [w EXCEPT !.h.pc = "sb_send"]
    ELSE [w EXCEPT !.h.pc = "loop"]

\* WebsocketClient.send_binary, the send itself; an exception leaves
\* serve_forever (OSError by the except clause, any other by propagation)
send_binary_send(w) ==
    IF SockSendOk(w) THEN [SockSend(w) EXCEPT !.h.pc = "loop"]
    ELSE StdioLeave(w)

(***************************************************************************)
(* Inbound data path.                                                      *)
(***************************************************************************)
\* safe_send without the request_error test
safe_sendUnguarded(w, fr, o) ==
    IF o = "ok" THEN [w EXCEPT !.g.clientOut = Append(@, fr)]
    ELSE IF o = "oserror" THEN [w EXCEPT !.h.request_error = TRUE]
    ELSE [w EXCEPT !.h.sinkRaised = TRUE]

\* safe_send of StdioHandler.serve_forever; o is what writer.write does:
\* "ok", "oserror", or "closed" (ValueError of a closed file object, which
\* safe_send does not catch)
safe_send(w, fr, o) ==
    IF ~w.h.request_error
    THEN IF o = "ok" THEN [w EXCEPT !.g.clientOut = Append(@, fr)]
         ELSE IF o = "oserror" THEN [w EXCEPT !.h.request_error = TRUE]
         ELSE [w EXCEPT !.h.sinkRaised = TRUE]
    ELSE w

\* WebsocketClient._on_ws_message: an exception of the sink stops the
\* websocket
_on_ws_message(w, fr, o) ==
    IF w.ws.proxy_send_message
    THEN LET w1 == safe_send([w EXCEPT !.h.sinkRaised = FALSE], fr, o)
         IN  IF w1.h.sinkRaised THEN stop(w1) ELSE w1
    ELSE w

\* what writer.write can do in the handler's current state
WriteOutcomes(hr) == IF hr.writer = "open" THEN {"ok", "oserror"} ELSE {"closed"}

(***************************************************************************)
(* TCPServer (tcp_server.py), on the tcp fields of a handler record.       *)
(***************************************************************************)
\* TCPServer.stop_connection
stop_connection(hr) ==
    IF hr.connection /\ ~hr.conn_is_closed
    THEN [hr EXCEPT !.connection = FALSE, !.conn_is_closed = TRUE,
                    !.clientClosed = TRUE]
    ELSE hr

\* TCPServer.stop: socket.close() on a closed socket does nothing
TcpStop(hr) ==
    LET h1 == stop_connection(hr)
    IN  IF h1.sock # "none" THEN [h1 EXCEPT !.sock = "closed"] ELSE h1

\* TCPServer._start_connection up to accept(): listen() on a closed
\* socket raises, which the outer except clause logs
BeginConnection(hr) ==
    IF hr.sock = "bound"
    THEN [hr EXCEPT !.conn_is_closed = FALSE, !.counter = 0, !.pc = "accept"]
    ELSE [hr EXCEPT !.conn_is_closed = FALSE, !.counter = 0, !.pc = "off"]

\* TCPServer.start: _start_server binds the listening socket when the
\* websocket became available, otherwise start() returns
TcpStart(w, avail) ==
    IF avail THEN [w EXCEPT !.h = BeginConnection([w.h EXCEPT !.sock = "bound"])]
    ELSE [w EXCEPT !.h.pc = "off"]

\* TCPServer._start_connection: accept() returned a client, or raised
\* because the listening socket was closed meanwhile
TcpAccept(w) ==
    IF w.h.sock = "bound"
    THEN [w EXCEPT !.h.connection = TRUE, !.h.clientClosed = FALSE,
                   !.h.conns = @ + 1, !.h.pc = "recv",
                   !.g.nread = 0, !.g.avail = << >>, !.g.wsSent = << >>]
    ELSE [w EXCEPT !.h.pc = "off"]

\* one pass of the read loop up to the websocket wait; r is what recv()
\* gives: "data", "eof", "timeout" (socket.timeout) or "error"
TcpRecvStep(w, r) ==
    IF w.h.conn_is_closed \/ ~w.h.connection THEN [w EXCEPT !.h.pc = "after"]
    ELSE IF r = "data"
    THEN [w EXCEPT !.h.counter = 0, !.h.cur = w.g.nread + 1, !.h.pc = "t_wait",
                   !.g.nread = @ + 1, !.g.avail = Append(@, "pending")]
    ELSE IF r = "eof" THEN [w EXCEPT !.h.counter = 0, !.h.pc = "after"]
    ELSE IF r = "timeout"
    THEN IF w.h.tcp_timeout > 0 /\ w.h.counter >= w.h.tcp_timeout
         THEN [w EXCEPT !.h.pc = "after"]
         ELSE [w EXCEPT !.h.counter = @ + 1]
    ELSE [w EXCEPT !.h.pc = "after"]

\* if self.web_socket_client.is_ws_available(): ... (no else branch)
TcpWait(w, avail) ==
    IF avail THEN [w EXCEPT !.h.pc = "t_send"]
    ELSE [w EXCEPT !.h.pc = "recv"]

\* self.web_socket_client.web_socket.sock.send_binary(data); an exception
\* is caught by "except Exception" and leaves the loop
TcpSend(w) ==
    IF SockSendOk(w) THEN [SockSend(w) EXCEPT !.h.pc = "recv"]
    ELSE [w EXCEPT !.h.pc = "after"]

\* _restart() that goes on to the next accept without stop_connection()
TcpAfterLoopKeepsClient(w) ==
    IF ~w.h.script_mode
    THEN [w EXCEPT !.h.pc = "restart"]
    ELSE [w EXCEPT !.h.pc = "off"]

\* after the loop: _restart() unless script_mode; _restart stops the
\* connection and then waits for the websocket
TcpAfterLoop(w) ==
    IF ~w.h.script_mode
    THEN [w EXCEPT !.h = [stop_connection(w.h) EXCEPT !.pc = "restart"]]
    ELSE [w EXCEPT !.h.pc = "off"]

\* _restart that starts the next connection whatever the websocket does
TcpRestartAlways(w, avail) == [w EXCEPT !.h = BeginConnection(w.h)]

\* _restart: if is_ws_available(): _start_connection()
TcpRestart(w, avail) ==
    IF avail THEN [w EXCEPT !.h = BeginConnection(w.h)] ELSE [w EXCEPT !.h.pc = "off"]

(***************************************************************************)
(* Initial state: the objects as their constructors leave them.            *)
(***************************************************************************)
\* WebsocketClient.__init__
InitWs(n) ==
    [web_socket |-> FALSE, ws_open_event |-> FALSE, ws_handshake_error |-> FALSE,
     max_retries |-> n, connection_attempts |-> 0,
     timer |-> "none", timerLeft |-> 0,
     shutdown_request |-> FALSE, proxy_send_message |-> FALSE,
     host |-> HTTPS \o Sep \o <<"t.example">>, device_id |-> "4171",
     config_id |-> "3", url |-> <<>>]

InitApp == [st |-> "none", err |-> "none"]

\* StdioHandler.__init__ / TCPServer.__init__
InitH(m, sm, tt) ==
    [mode |-> m, pc |-> "idle", cur |-> 0,
     request_error |-> FALSE, shutdown_event |-> FALSE,
     reader |-> "none", writer |-> "none", raised |-> FALSE, sinkRaised |-> FALSE,
     connection |-> FALSE, conn_is_closed |-> FALSE, clientClosed |-> FALSE,
     sock |-> "none", counter |-> 0, tcp_timeout |-> tt, script_mode |-> sm,
     conns |-> 0, stops |-> 0, laterChanged |-> FALSE]

InitG ==
    [dials |-> 0, dialsAfterFail |-> 0, failed |-> FALSE,
     saw401 |-> FALSE, dialAfter401 |-> FALSE,
     stopped |-> FALSE, dialAfterStop |-> FALSE, dialWhileLive |-> FALSE,
     timerFired |-> FALSE, gaveUp |-> FALSE, shutdownReqs |-> 0,
     openAge |-> 0, stableAtLoss |-> FALSE, budgetSeen |-> -1, evalStable |-> FALSE,
     nread |-> 0, avail |-> << >>, wsSent |-> << >>,
     nframes |-> 0, frameLog |-> << >>, clientOut |-> << >>]

\* TCPProxyServer as the specification describes it: the constructor binds
\* the listening socket; nothing is served before serve_forever runs
InitListener ==
    [bound |-> FALSE, port |-> 0, running |-> FALSE, thread |-> "none",
     shut |-> FALSE]

\* UnixStreamProxyServer.__init__: CustomUnixStreamServer binds the path
InitLst ==
    [unix |-> [srv |-> [InitListener EXCEPT !.bound = TRUE], path |-> "bound",
               raised |-> FALSE, stops |-> 0, laterChanged |-> FALSE]]

\* os.environ entries the program writes; "" is unset
InitEnviron == [C8Y_HOST |-> "", PORT |-> "", DEVICE |-> "", WSLENV |-> ""]

\* run_proxy_in_background after background.start(): the start_proxy
\* thread is about to build the server, the caller waits for readiness
InitPx(p) ==
    [port |-> p, ctx_used_port |-> -1, L |-> InitListener,
     bg |-> "init", main |-> "wait_local",
     local_ready |-> FALSE, ready |-> FALSE, stop_signal |-> FALSE,
     hook |-> FALSE, environ |-> InitEnviron, exit_code |-> -1,
     bg_code |-> 0, sub |-> "none", waited |-> FALSE,
     host |-> "https://t.example", device |-> "device01", kind |-> "ssh",
     additional_args |-> <<>>, spawned |-> <<>>, sub_rc |-> -1,
     subEnviron |-> InitEnviron, client |-> FALSE,
     found |-> "unasked", bash |-> "unasked"]

\* no managed object fetched yet
NoMor == [frag |-> FALSE, list |-> <<>>, fetched |-> FALSE]

\* ProxyContext defaults and a CumulocityClient with credentials, before
\* pre_start_checks: token, password, user and host say whether the value
\* is non-empty; role is what the server holds for the current user
InitCli ==
    [pc |-> "create_client", host |-> TRUE, token |-> TRUE,
     password |-> TRUE, user |-> TRUE, tfacode |-> FALSE,
     supports_oauth |-> FALSE, disable_prompts |-> TRUE, store |-> FALSE,
     retries |-> 0, success |-> FALSE, attempts |-> 0, outcomes |-> <<>>,
     prompted |-> <<>>, stored |-> 0, config |-> <<>>, mor |-> NoMor,
     config_id |-> 0, resolved |-> FALSE, role |-> "admin",
     role_checked |-> FALSE, is_authorized |-> FALSE, exit_code |-> -1,
     wide |-> FALSE]

\* no env file, an empty environment, no save_env call made; text is a
\* sequence of characters, environ a set of <<name, value>> pairs
InitFs ==
    [exists |-> FALSE, text |-> <<>>, values |-> <<>>, environ |-> {},
     raised |-> FALSE, calls |-> 0, returns |-> <<>>, before |-> <<>>,
     loaded |-> FALSE]

\* the workload: the chunks the local client writes per connection, the
\* frames the upstream delivers, the dials explored and the local client
\* connections made
Workload(r, f, d, c) == [reads |-> r, frames |-> f, dials |-> d, conns |-> c]

\* The websocket client driven by the stdio handler, for every reconnect
\* limit, with every frame and dial of the bounds and one outbound chunk.
Init ==
    /\ \E n \in Retries : ws = InitWs(n)
    /\ app = InitApp
    /\ h = InitH("stdio", FALSE, 0)
    /\ g = InitG
    /\ lst = InitLst
    /\ px = InitPx(0)
    /\ env = Workload(1, MaxFrames, MaxDials, 1)
    /\ cli = InitCli
    /\ fs = InitFs

\* The outbound path of both handlers with the reconnect limit that
\* start_proxy passes (max_retries = 2), with every chunk of the bounds,
\* one inbound frame and one redial.
FwdInit ==
    /\ ws = InitWs(2)
    /\ app = InitApp
    /\ \/ h = InitH("stdio", FALSE, 0)
       \/ \E sm \in BOOLEAN, tt \in {0, 1} : h = InitH("tcp", sm, tt)
    /\ g = InitG
    /\ lst = InitLst
    /\ px = InitPx(0)
    /\ env = Workload(MaxReads, 1, 2, 1)
    /\ cli = InitCli
    /\ fs = InitFs

\* history: when a step ends the handling of the chunk in hand, whether
\* the websocket was usable in the state the step ran in
InFlight == {"sb_check", "sb_wait", "sb_send", "t_wait", "t_send"}

Decide(w) ==
    IF w.h.pc \in InFlight THEN w
    ELSE [w EXCEPT !.g.avail[h.cur] = IF Usable(World) THEN "yes" ELSE "no"]

Apply(w) ==
    /\ ws' = w.ws
    /\ app' = w.app
    /\ h' = w.h
    /\ g' = w.g
    /\ UNCHANGED <<lst, px, env, cli, fs>>

(***************************************************************************)
(* Actions of the websocket client and of the library thread.              *)
(***************************************************************************)
\* the caller of the TCP server dials before TCPServer.start()
ExternalConnect ==
    /\ h.mode = "tcp"
    /\ g.dials = 0
    /\ Apply(connect(World))

\* the handshake succeeds and run_forever calls on_open
WsHandshakeOk ==
    /\ app.st = "dialing"
    /\ Apply(_on_ws_open([World EXCEPT !.app.st = "open"]))

\* the handshake fails with error e; on_error(e) and on_close follow
WsHandshakeFail ==
    /\ app.st = "dialing"
    /\ \E e \in HandshakeErrors :
         Apply([World EXCEPT !.app = [st |-> "lost", err |-> e],
                             !.g.failed = TRUE,
                             !.g.stableAtLoss = FALSE])

\* the open connection is lost: closed by the peer ("none") or broken
WsLoss ==
    /\ app.st = "open"
    /\ \E e \in LossErrors :
         Apply([World EXCEPT !.app = [st |-> "lost", err |-> e],
                             !.g.failed = TRUE,
                             !.g.stableAtLoss = (g.openAge >= StableTicks)])

\* run_forever reports the pending error through on_error
WsErrorCallback ==
    /\ app.st = "lost"
    /\ app.err # "none"
    /\ Apply(_on_ws_error([World EXCEPT !.app.err = "none"], app.err))

\* run_forever's teardown calls on_close and the thread ends
WsCloseCallback ==
    /\ app.st = "lost"
    /\ app.err = "none"
    /\ LET w == _on_ws_close([World EXCEPT !.app.st = "none"])
       IN  /\ w.g.dials <= env.dials
           /\ Apply(w)

\* run_forever delivers the next frame through on_message
WsMessage ==
    /\ app.st = "open"
    /\ g.nframes < env.frames
    /\ \E o \in WriteOutcomes(h) :
         LET fr == g.nframes + 1
             w == _on_ws_message(World, fr, o)
             wrote == ws.proxy_send_message /\ ~h.request_error
         IN  Apply([w EXCEPT !.g.nframes = fr,
                             !.g.frameLog = Append(@,
                                 [id |-> fr, sink |-> ws.proxy_send_message,
                                  err |-> h.request_error,
                                  fail |-> (wrote /\ o # "ok")])])

\* one unit of time passes; the stability timer (threading.Timer) runs
\* its callback when its period has elapsed
Tick ==
    /\ ws.timer = "armed" \/ (app.st = "open" /\ g.openAge < StableTicks)
    /\ LET w1 == [World EXCEPT !.g.openAge =
                      IF app.st = "open" /\ @ < StableTicks THEN @ + 1 ELSE @]
           w2 == IF ws.timer = "armed"
                 THEN IF ws.timerLeft <= 1
                      THEN [reset_connection_attempts(w1) EXCEPT
                               !.ws.timer = "fired", !.ws.timerLeft = 0,
                               !.g.timerFired = TRUE]
                      ELSE [w1 EXCEPT !.ws.timerLeft = @ - 1]
                 ELSE w1
       IN  Apply(w2)

(***************************************************************************)
(* Actions of the stdio handler thread.                                    *)
(***************************************************************************)
StdioServe ==
    /\ h.mode = "stdio"
    /\ h.pc = "idle"
    /\ Apply(StdioEnter(World))

StdioRead ==
    /\ h.mode = "stdio"
    /\ h.pc = "loop"
    /\ \E r \in {"data", "eof", "oserror"} :
         /\ r = "data" => g.nread < env.reads
         /\ Apply(StdioReadStep(World, r))

\* the handler thread inside stop(), between closing the application and
\* clearing web_socket; the library thread may run in between
StdioStop ==
    /\ h.pc = "stopping"
    /\ Apply(StdioStopStep(World))

SendBinaryCheck ==
    /\ h.pc = "sb_check"
    /\ Apply(Decide(send_binary_check(World)))

\* Event.wait(timeout) returns True once the event is set and False when
\* the timeout passed without it
SendBinaryWait ==
    /\ h.pc = "sb_wait"
    /\ Apply(Decide(send_binary_wait(World, ws.ws_open_event)))

SendBinarySend ==
    /\ h.pc = "sb_send"
    /\ Apply(Decide(send_binary_send(World)))

(***************************************************************************)
(* Actions of the TCP server thread.                                       *)
(***************************************************************************)
TcpServerStart ==
    /\ h.mode = "tcp"
    /\ h.pc = "idle"
    /\ Apply(TcpStart(World, ws.ws_open_event))

TcpServerAccept ==
    /\ h.pc = "accept"
    /\ h.sock = "bound" => h.conns < env.conns
    /\ Apply(TcpAccept(World))

TcpServerRecv ==
    /\ h.pc = "recv"
    /\ \E r \in {"data", "eof", "timeout", "error"} :
         /\ r = "data" => g.nread < env.reads
         /\ r = "timeout" => h.counter < MaxIdle
         /\ Apply(TcpRecvStep(World, r))

TcpServerWait ==
    /\ h.pc = "t_wait"
    /\ Apply(Decide(TcpWait(World, ws.ws_open_event)))

TcpServerSend ==
    /\ h.pc = "t_send"
    /\ Apply(Decide(TcpSend(World)))

TcpServerAfterLoop ==
    /\ h.pc = "after"
    /\ Apply(TcpAfterLoop(World))

TcpServerRestart ==
    /\ h.pc = "restart"
    /\ Apply(TcpRestart(World, ws.ws_open_event))

WsNext ==
    \/ WsHandshakeOk
    \/ WsHandshakeFail
    \/ WsLoss
    \/ WsErrorCallback
    \/ WsCloseCallback
    \/ WsMessage
    \/ Tick

StdioNext ==
    \/ StdioServe
    \/ StdioRead
    \/ StdioStop
    \/ SendBinaryCheck
    \/ SendBinaryWait
    \/ SendBinarySend

TcpNext ==
    \/ ExternalConnect
    \/ TcpServerStart
    \/ TcpServerAccept
    \/ TcpServerRecv
    \/ TcpServerWait
    \/ TcpServerSend
    \/ TcpServerAfterLoop
    \/ TcpServerRestart

Next == WsNext \/ StdioNext

Spec == Init /\ [][Next]_vars

FwdNext == WsNext \/ StdioNext \/ TcpNext

FwdSpec == FwdInit /\ [][FwdNext]_vars

(***************************************************************************)
(* Listener shutdown: TCPServer.stop, StdioHandler.shutdown and            *)
(* UnixStreamProxyServer.shutdown called at any moment of the listener's   *)
(* life, at most MaxStops times each.                                      *)
(***************************************************************************)
\* TCPProxyServer.shutdown as the specification describes it (section 4.3):
\* idempotent, the worker is signalled and the sockets are released
ProxyServerShutdown(L) ==
    [L EXCEPT !.bound = FALSE, !.running = FALSE, !.shut = TRUE]

\* UnixStreamProxyServer.shutdown: super().shutdown(), then
\* os.remove(self.path), which raises FileNotFoundError for a missing path
UnixShutdown(u) ==
    LET u1 == [u EXCEPT !.srv = ProxyServerShutdown(u.srv)]
    IN  IF u.path = "bound" THEN [u1 EXCEPT !.path = "removed"]
        ELSE [u1 EXCEPT !.raised = TRUE]

\* history: the call is counted, and a call after the first that changes
\* the object is recorded
Counted(old, new) ==
    [new EXCEPT !.stops = @ + 1,
                !.laterChanged = @ \/ (old.stops >= 1 /\ new # old)]

StopTcpServer ==
    /\ h.mode = "tcp"
    /\ h.stops < MaxStops
    /\ h' = Counted(h, TcpStop(h))
    /\ UNCHANGED <<ws, app, g, lst, px, env, cli, fs>>

StopStdioHandler ==
    /\ h.mode = "stdio"
    /\ h.stops < MaxStops
    /\ h' = Counted(h, StdioShutdown(h))
    /\ UNCHANGED <<ws, app, g, lst, px, env, cli, fs>>

StopUnixServer ==
    /\ h.mode = "unix"
    /\ lst.unix.stops < MaxStops
    /\ lst' = [lst EXCEPT !.unix = Counted(lst.unix, UnixShutdown(lst.unix))]
    /\ UNCHANGED <<ws, app, h, g, px, env, cli, fs>>

\* the listener worker enters serve_forever, and leaves it
ListenerServe(L) == [L EXCEPT !.thread = "serving", !.running = TRUE]
ListenerExit(L) == [L EXCEPT !.thread = "dead", !.running = FALSE]

UnixServe ==
    /\ h.mode = "unix"
    /\ lst.unix.srv.thread = "none"
    /\ ~lst.unix.srv.shut
    /\ lst' = [lst EXCEPT !.unix.srv = ListenerServe(@)]
    /\ UNCHANGED <<ws, app, h, g, px, env, cli, fs>>

UnixLeave ==
    /\ h.mode = "unix"
    /\ lst.unix.srv.thread = "serving"
    /\ lst' = [lst EXCEPT !.unix.srv = ListenerExit(@)]
    /\ UNCHANGED <<ws, app, h, g, px, env, cli, fs>>

\* Each listener variant with the reconnect limit start_proxy passes, one
\* outbound chunk and one redial.
StopInit ==
    /\ ws = InitWs(2)
    /\ app = InitApp
    /\ \/ h = InitH("stdio", FALSE, 0)
       \/ \E sm \in BOOLEAN : h = InitH("tcp", sm, 0)
       \/ h = InitH("unix", FALSE, 0)
    /\ g = InitG
    /\ lst = InitLst
    /\ px = InitPx(0)
    /\ env = Workload(1, 1, 2, 1)
    /\ cli = InitCli
    /\ fs = InitFs

StopNext ==
    \/ WsNext
    \/ StdioNext
    \/ TcpNext
    \/ StopTcpServer
    \/ StopStdioHandler
    \/ StopUnixServer
    \/ UnixServe
    \/ UnixLeave

StopSpec == StopInit /\ [][StopNext]_vars

(***************************************************************************)
(* start_proxy on the background thread and run_proxy_in_background /      *)
(* ProxyContext.start_background on the main thread (core.py).             *)
(***************************************************************************)
\* ports the operating system assigns for a requested port 0
OsPorts == {40001, 40002}
\* ports asked for: 0 (background modes) or a fixed one
AskedPorts == {0, 2222}
\* exit codes of the subcommand explored; -1 stands for an exception
SubResults == {0, 99, -1}
\* the subcommands that run the proxy in the background
Kinds == {"ssh", "command", "plugin"}
\* arguments after the device on the command line
ArgLists == {<<"scp", "f">>, <<"echo", "$PORT">>}
\* values of C8YLP_SHELL ("" is unset)
Shells == {"", "sh"}

\* ProxyContext.used_port (getter): the root context's entry, or opts.port
used_port(p) == IF p.ctx_used_port = -1 THEN p.port ELSE p.ctx_used_port

\* start_proxy: TCPProxyServer(...) builds and binds the server, then the
\* listener thread is started; osport is the port the system assigns
CreateServer(p, osport) ==
    [p EXCEPT !.L = [InitListener EXCEPT
                        !.bound = TRUE,
                        !.port = IF p.port = 0 THEN osport ELSE p.port,
                        !.thread = "starting"],
              !.bg = "wait_running"]

\* the constructor raises (the port is taken): the except clause records
\* UNKNOWN and the finally block finds no server
CreateServerFails(p) == [p EXCEPT !.bg = "finally", !.bg_code = 9]

\* TCPProxyServer.wait_for_running(timeout): whether serve_forever
\* reported running within the timeout
wait_for_running(L) == L.running

\* start_proxy: wait_for_running, or exit_server_not_ready() whose Exit
\* passes through the except clause to the finally block
WaitRunning(p) ==
    IF wait_for_running(p.L) THEN [p EXCEPT !.bg = "record", !.waited = TRUE]
    ELSE [p EXCEPT !.bg = "finally", !.bg_code = 11]

\* start_proxy without the port stored
RecordUsedPortSkipped(p) == [p EXCEPT !.bg = "signal"]

\* start_proxy: store the port of the server's socket as used_port
RecordUsedPort(p) ==
    IF p.L.bound
    THEN [p EXCEPT !.ctx_used_port = p.L.port, !.bg = "signal"]
    ELSE [p EXCEPT !.bg = "signal"]

\* start_proxy: ready_signal.set()
SetReady(p) == [p EXCEPT !.local_ready = TRUE, !.bg = "loop"]

\* start_proxy: one pass of "while background.is_alive()"
LoopStep(p) ==
    IF p.L.thread \in {"starting", "serving"}
    THEN IF p.stop_signal THEN [p EXCEPT !.bg = "finally"] ELSE p
    ELSE [p EXCEPT !.bg = "finally"]

\* the finally block joining the worker without shutting the server down
FinallyNoShutdown(p) ==
    IF p.L.thread # "none"
    THEN [p EXCEPT !.bg = "join"]
    ELSE [p EXCEPT !.bg = "done"]

\* start_proxy: the finally block, tcp_server.shutdown()
Finally(p) ==
    IF p.L.thread # "none"
    THEN [p EXCEPT !.L = ProxyServerShutdown(p.L), !.bg = "join"]
    ELSE [p EXCEPT !.bg = "done"]

\* the main thread going on without the local ready signal
WaitLocalReadyNoTimeout(p) == [p EXCEPT !.main = "set_env"]

\* run_proxy_in_background: wait for the local ready signal, or
\* exit_server_not_ready()
WaitLocalReady(p) ==
    IF p.local_ready THEN [p EXCEPT !.main = "set_env"]
    ELSE [p EXCEPT !.main = "exit", !.exit_code = 11]

\* set_env with the requested port instead of the used one
set_envRequestedPort(p) ==
    [p EXCEPT !.environ = [C8Y_HOST |-> p.host,
                           PORT |-> ToString(p.port),
                           DEVICE |-> p.device,
                           WSLENV |-> "PORT/u:DEVICE/u:C8Y_HOST/u"]]

\* ProxyContext.set_env
set_env(p) ==
    [p EXCEPT !.environ = [C8Y_HOST |-> p.host,
                           PORT |-> ToString(used_port(p)),
                           DEVICE |-> p.device,
                           WSLENV |-> "PORT/u:DEVICE/u:C8Y_HOST/u"]]

\* run_proxy_in_background: the timer and ctx.call_on_close(hook)
RegisterHook(p) == [p EXCEPT !.hook = TRUE, !.main = "signal"]

\* run_proxy_in_background: ready_signal.set()
SignalReady(p) == [p EXCEPT !.ready = TRUE, !.main = "wait_ready"]

\* ProxyContext.start_background: ready_signal.wait(timeout), after which
\* the caller starts the subcommand
StartBackgroundWait(p) ==
    IF p.ready THEN [p EXCEPT !.main = "resolve"]
    ELSE [p EXCEPT !.main = "closing", !.exit_code = 11]

\* ctx.exit(code) in a subcommand: click closes the context, which runs
\* the registered close callbacks, and the process exits with the code
ctx_exit(p, code) == [p EXCEPT !.exit_code = code, !.main = "closing"]

\* subprocess.call(argv, env=os.environ) starts the child process
subprocess_call(p, argv) ==
    [p EXCEPT !.spawned = argv, !.subEnviron = p.environ,
              !.sub = "running", !.main = "sub"]

\* os.path.expandvars for an argument that is one variable reference; a
\* reference to an unset variable is left as it is
expandvars(v, e) ==
    IF v = "$PORT" /\ e.PORT # "" THEN e.PORT
    ELSE IF v = "$DEVICE" /\ e.DEVICE # "" THEN e.DEVICE
    ELSE v

\* " ".join(args)
RECURSIVE Join(_)
Join(args) ==
    IF Len(args) = 0 THEN ""
    ELSE IF Len(args) = 1 THEN args[1]
    ELSE args[1] \o " " \o Join(Tail(args))

\* the path shutil.which returns for a command that is on PATH
WhichPath(c) == "/usr/bin/" \o c

\* connect ssh without the test for the binary
ssh_cliUnchecked(p, found) ==
    subprocess_call(p, <<"ssh", "-p", ToString(used_port(p)),
                         "user@localhost">> \o p.additional_args)

\* connect ssh: the part of cli() after start_background() up to
\* subprocess.call; found is whether shutil.which("ssh") finds a binary
ssh_cli(p, found) ==
    IF ~found THEN ctx_exit(p, 10)
    ELSE subprocess_call(p,
            <<"ssh", "-o", "ServerAliveInterval=120",
              "-o", "StrictHostKeyChecking=no",
              "-o", "UserKnownHostsFile=/dev/null",
              "-p", ToString(used_port(p)), "user@localhost">>
            \o p.additional_args)

\* plugin command with the command taken for found whatever PATH holds
command_cliNoFallback(p, found, bash) ==
    subprocess_call(p, [i \in 1..Len(p.additional_args) |->
                          expandvars(p.additional_args[i], p.environ)])

\* plugin command: the part of cli() after start_background() up to
\* subprocess.call; found and bash are whether shutil.which finds
\* cmd_args[0] and bash
command_cli(p, found, bash) ==
    LET cmd_args == [i \in 1..Len(p.additional_args) |->
                        expandvars(p.additional_args[i], p.environ)]
    IN  IF found
        THEN subprocess_call(p, <<WhichPath(cmd_args[1])>> \o Tail(cmd_args))
        ELSE IF ~bash THEN ctx_exit(p, 12)
        ELSE subprocess_call(p, <<WhichPath("bash"), "-c", Join(cmd_args)>>)

\* build_cmd_args on a system other than Windows; shell is C8YLP_SHELL
\* ("" when unset), taken to be on PATH
build_cmd_args(cmd_args, shell) ==
    IF shell = "" THEN cmd_args ELSE <<WhichPath(shell)>> \o cmd_args

\* bash plugin: bash_wrapper after start_background() up to
\* subprocess.call
bash_wrapper(p, shell) ==
    LET p1 == set_env(p)
    IN  subprocess_call(p1,
            build_cmd_args(<<"plugin.sh">> \o p.additional_args, shell))

\* a subcommand that always exits with 0
SubcommandExitZero(p, r) == [ctx_exit(p, 0) EXCEPT !.sub = "exited"]

\* the child process ends: subprocess.call returns r, or raises (r = -1),
\* and the subcommand calls ctx.exit
SubcommandExit(p, r) ==
    IF r # -1 THEN [ctx_exit(p, r) EXCEPT !.sub = "exited"]
    ELSE IF p.kind = "plugin" THEN [ctx_exit(p, 20) EXCEPT !.sub = "raised"]
    ELSE [ctx_exit(p, 1) EXCEPT !.sub = "raised"]

\* _shutdown_server_thread without the stop signal
ShutdownHookNoSignal(p) == [p EXCEPT !.main = "joining"]

\* _shutdown_server_thread: stop_signal.set(), then background.join()
ShutdownHook(p) == [p EXCEPT !.stop_signal = TRUE, !.main = "joining"]

\* _shutdown_server_thread: join returned, timer.stop_with_message()
HookJoined(p) == [p EXCEPT !.main = "closed"]

ApplyPx(p) ==
    /\ px' = p
    /\ UNCHANGED <<ws, app, h, g, lst, env, cli, fs>>

BgCreate ==
    /\ px.bg = "init"
    /\ \/ \E o \in OsPorts : ApplyPx(CreateServer(px, o))
       \/ px.port # 0 /\ ApplyPx(CreateServerFails(px))

BgWaitRunning ==
    /\ px.bg = "wait_running"
    /\ ApplyPx(WaitRunning(px))

BgRecordPort ==
    /\ px.bg = "record"
    /\ ApplyPx(RecordUsedPort(px))

BgSetReady ==
    /\ px.bg = "signal"
    /\ ApplyPx(SetReady(px))

BgLoop ==
    /\ px.bg = "loop"
    /\ ApplyPx(LoopStep(px))

BgFinally ==
    /\ px.bg = "finally"
    /\ ApplyPx(Finally(px))

\* background.join() in the finally block returns once the listener
\* thread has ended
BgJoin ==
    /\ px.bg = "join"
    /\ px.L.thread = "dead"
    /\ ApplyPx([px EXCEPT !.bg = "done"])

ListenerStarts ==
    /\ px.L.thread = "starting"
    /\ ~px.L.shut
    /\ ApplyPx([px EXCEPT !.L = ListenerServe(@)])

\* serve_forever returns because shutdown was requested
ListenerStopped ==
    /\ px.L.thread \in {"starting", "serving"}
    /\ px.L.shut
    /\ ApplyPx([px EXCEPT !.L = ListenerExit(@)])

\* serve_forever ends on its own (an error in the worker)
ListenerDies ==
    /\ px.L.thread = "serving"
    /\ ~px.L.shut
    /\ ApplyPx([px EXCEPT !.L = ListenerExit(@)])

MainWaitLocal ==
    /\ px.main = "wait_local"
    /\ ApplyPx(WaitLocalReady(px))

MainSetEnv ==
    /\ px.main = "set_env"
    /\ ApplyPx([set_env(px) EXCEPT !.main = "register"])

MainRegisterHook ==
    /\ px.main = "register"
    /\ ApplyPx(RegisterHook(px))

MainSignalReady ==
    /\ px.main = "signal"
    /\ ApplyPx(SignalReady(px))

MainStartSubcommand ==
    /\ px.main = "wait_ready"
    /\ ApplyPx(StartBackgroundWait(px))

\* history: what shutil.which answered
Asked(b) == IF b THEN "yes" ELSE "no"

SshStart ==
    /\ px.main = "resolve"
    /\ px.kind = "ssh"
    /\ \E found \in BOOLEAN :
          ApplyPx([ssh_cli(px, found) EXCEPT !.found = Asked(found)])

CommandStart ==
    /\ px.main = "resolve"
    /\ px.kind = "command"
    /\ \E found, bash \in BOOLEAN :
          ApplyPx([command_cli(px, found, bash) EXCEPT
                      !.found = Asked(found),
                      !.bash = IF found THEN "unasked" ELSE Asked(bash)])

PluginStart ==
    /\ px.main = "resolve"
    /\ px.kind = "plugin"
    /\ \E shell \in Shells : ApplyPx(bash_wrapper(px, shell))

SubcommandEnds ==
    /\ px.main = "sub"
    /\ \E r \in SubResults :
          ApplyPx([SubcommandExit(px, r) EXCEPT !.sub_rc = r])

\* the child process connects to the listener; the handler of the
\* accepted connection dials the websocket unless it is open
ClientConnects ==
    /\ px.sub = "running"
    /\ px.L.thread = "serving"
    /\ ~px.L.shut
    /\ ~px.client
    /\ LET w == IF is_open(ws) THEN World ELSE connect(World)
       IN  /\ ws' = w.ws
           /\ app' = w.app
           /\ h' = w.h
           /\ g' = w.g
    /\ px' = [px EXCEPT !.client = TRUE]
    /\ UNCHANGED <<lst, env, cli, fs>>

MainHook ==
    /\ px.main = "closing"
    /\ px.hook
    /\ ApplyPx(ShutdownHook(px))

MainHookJoin ==
    /\ px.main = "joining"
    /\ px.bg = "done"
    /\ ApplyPx(HookJoined(px))

ProxyInit ==
    /\ ws = InitWs(2)
    /\ app = InitApp
    /\ h = InitH("stdio", FALSE, 0)
    /\ g = InitG
    /\ lst = InitLst
    /\ \E p \in AskedPorts, k \in Kinds, a \in ArgLists :
          px = [InitPx(p) EXCEPT !.kind = k, !.additional_args = a]
    /\ env = Workload(0, 0, 0, 0)
    /\ cli = InitCli
    /\ fs = InitFs

BgNext ==
    \/ BgCreate
    \/ BgWaitRunning
    \/ BgRecordPort
    \/ BgSetReady
    \/ BgLoop
    \/ BgFinally
    \/ BgJoin

ListenerNext ==
    \/ ListenerStarts
    \/ ListenerStopped
    \/ ListenerDies

MainNext ==
    \/ MainWaitLocal
    \/ MainSetEnv
    \/ MainRegisterHook
    \/ MainSignalReady
    \/ MainStartSubcommand
    \/ SshStart
    \/ CommandStart
    \/ PluginStart
    \/ SubcommandEnds
    \/ ClientConnects
    \/ MainHook
    \/ MainHookJoin

ProxyNext == BgNext \/ ListenerNext \/ MainNext

ProxySpec == ProxyInit /\ [][ProxyNext]_vars

\* Every thread that can take a step eventually takes one; the subcommand
\* and an error in the listener worker are not obliged to happen.
ProxyLive ==
    /\ ProxyInit
    /\ [][ProxyNext]_vars
    /\ WF_vars(BgNext)
    /\ WF_vars(ListenerStarts)
    /\ WF_vars(ListenerStopped)
    /\ WF_vars(MainHook)
    /\ WF_vars(MainHookJoin)

(***************************************************************************)
(* The env file (env.py): save_env and loadenv.  A text is a sequence of   *)
(* characters; a name such as C8Y_HOST counts as one character that is     *)
(* neither white space nor punctuation.                                    *)
(***************************************************************************)
\* save_env calls explored on one file
MaxSaves == 2

NL == "\n"
Whitespace == {" ", NL}
\* characters os.path.expandvars does not take as part of a variable name
Punctuation == {"=", " ", NL, "'", "\"", "$", "#", ";"}

\* str.find: the first position of ch in s, 0 when there is none
IndexOf(s, ch) ==
    IF \E i \in 1..Len(s) : s[i] = ch
    THEN CHOOSE i \in 1..Len(s) :
            s[i] = ch /\ \A j \in 1..(i - 1) : s[j] # ch
    ELSE 0

\* str.splitlines
RECURSIVE splitlines(_)
splitlines(t) ==
    IF t = <<>> THEN <<>>
    ELSE LET i == IndexOf(t, NL)
         IN  IF i = 0 THEN <<t>>
             ELSE <<SubSeq(t, 1, i - 1)>> \o splitlines(SubSeq(t, i + 1, Len(t)))

\* "\n".join(lines)
RECURSIVE JoinLines(_)
JoinLines(ls) ==
    IF ls = <<>> THEN <<>>
    ELSE IF Len(ls) = 1 THEN ls[1]
    ELSE ls[1] \o <<NL>> \o JoinLines(Tail(ls))

\* str.rstrip(chars), str.lstrip(chars), str.strip(chars)
RECURSIVE rstrip(_, _)
rstrip(s, chars) ==
    IF s # <<>> /\ s[Len(s)] \in chars
    THEN rstrip(SubSeq(s, 1, Len(s) - 1), chars) ELSE s

RECURSIVE lstrip(_, _)
lstrip(s, chars) ==
    IF s # <<>> /\ s[1] \in chars THEN lstrip(Tail(s), chars) ELSE s

strip(s, chars) == lstrip(rstrip(s, chars), chars)

\* a partition at the last "=" instead of the first
partitionLast(s) ==
    LET at == {i \in 1..Len(s) : s[i] = "="}
        i == IF at = {} THEN 0 ELSE CHOOSE j \in at : \A k \in at : k <= j
    IN  IF i = 0 THEN [key |-> s, value |-> <<>>]
        ELSE [key |-> SubSeq(s, 1, i - 1), value |-> SubSeq(s, i + 1, Len(s))]

\* line.partition("="): the key before the first "=", the value after it
partition(s) ==
    LET i == IndexOf(s, "=")
    IN  IF i = 0 THEN [key |-> s, value |-> <<>>]
        ELSE [key |-> SubSeq(s, 1, i - 1), value |-> SubSeq(s, i + 1, Len(s))]

\* f"{key}={d_value}"
EnvLine(key, value) == key \o <<"=">> \o value

\* the file as save_env and loadenv find it
FileOf(f) == [exists |-> f.exists, text |-> f.text]

\* the loop of save_env over values.items(): lines0 is the file as read,
\* whose line indexes are collected per non-empty key before the loop
RECURSIVE save_loop(_, _, _, _)
save_loop(output, has_changed, values, lines0) ==
    IF values = <<>> THEN [output |-> output, has_changed |-> has_changed]
    ELSE LET key == Head(values).key
             newline == EnvLine(key, Head(values).value)
             key_indexes == {i \in 1..Len(lines0) :
                                key # <<>> /\ partition(lines0[i]).key = key}
         IN  IF key_indexes # {}
             THEN save_loop(
                     [i \in 1..Len(output) |->
                        IF i \in key_indexes THEN newline ELSE output[i]],
                     has_changed \/ \E i \in key_indexes : output[i] # newline,
                     Tail(values), lines0)
             ELSE save_loop(Append(output, newline), TRUE, Tail(values), lines0)

\* save_env that writes the file on every call
save_envAlwaysWrites(f, values) ==
    LET lines0 == IF ~f.exists THEN <<>> ELSE splitlines(f.text)
        r == save_loop(lines0, FALSE, values, lines0)
    IN  [f EXCEPT !.exists = TRUE,
                  !.text = rstrip(JoinLines(r.output), {NL}) \o <<NL>>,
                  !.calls = @ + 1,
                  !.returns = Append(@, TRUE),
                  !.before = Append(@, FileOf(f))]

\* save_env(path, values): the file afterwards, with the value returned
\* and the file before the call kept as history
save_env(f, values) ==
    LET lines0 == IF ~f.exists THEN <<>> ELSE splitlines(f.text)
        r == save_loop(lines0, FALSE, values, lines0)
        f1 == IF r.has_changed
              THEN [f EXCEPT !.exists = TRUE,
                             !.text = rstrip(JoinLines(r.output), {NL}) \o <<NL>>]
              ELSE f
    IN  [f1 EXCEPT !.calls = @ + 1,
                   !.returns = Append(@, r.has_changed),
                   !.before = Append(@, FileOf(f))]

\* os.environ as a set of <<name, value>> pairs
HasEnv(e, k) == \E p \in e : p[1] = k
GetEnv(e, k) == (CHOOSE p \in e : p[1] = k)[2]
SetEnv(e, k, v) == {p \in e : p[1] # k} \cup {<<k, v>>}

\* os.path.expandvars: $NAME is replaced when NAME is set and is left as
\* it is otherwise; NAME is the longest run of name characters
RECURSIVE os_path_expandvars(_, _)
os_path_expandvars(v, e) ==
    LET i == IndexOf(v, "$")
    IN  IF i = 0 THEN v
        ELSE LET rest == SubSeq(v, i + 1, Len(v))
                 stops == {j \in 1..Len(rest) : rest[j] \in Punctuation}
                 n == IF stops = {} THEN Len(rest)
                      ELSE (CHOOSE j \in stops : \A k \in stops : j <= k) - 1
                 name == SubSeq(rest, 1, n)
                 tail == SubSeq(rest, n + 1, Len(rest))
             IN  SubSeq(v, 1, i - 1) \o
                 (IF n > 0 /\ HasEnv(e, name) THEN GetEnv(e, name)
                  ELSE <<"$">> \o name) \o
                 os_path_expandvars(tail, e)

\* the value loadenv assigns for the text after the "="
EnvValue(value, e) ==
    IF value # <<>> /\ value[1] = "'" /\ value[Len(value)] = "'"
    THEN strip(value, {"'"})
    ELSE IF value # <<>> /\ value[1] = "\"" /\ value[Len(value)] = "\""
    THEN os_path_expandvars(strip(value, {"\""}), e)
    ELSE os_path_expandvars(value, e)

\* the loop of loadenv over the lines of the file; os.environ[key] = value
\* raises for an empty key
RECURSIVE load_lines(_, _)
load_lines(lines, f) ==
    IF lines = <<>> \/ f.raised THEN f
    ELSE LET line == strip(Head(lines), Whitespace)
             p == partition(line)
         IN  IF line = <<>> \/ line[1] \in {"#", ";"}
             THEN load_lines(Tail(lines), f)
             ELSE IF p.key = <<>> THEN [f EXCEPT !.raised = TRUE]
             ELSE load_lines(Tail(lines),
                    [f EXCEPT !.environ =
                        SetEnv(@, p.key, EnvValue(p.value, f.environ))])

\* loadenv(path) on an existing file
loadenv(f) == [load_lines(splitlines(f.text), f) EXCEPT !.loaded = TRUE]

\* keys and values of the dictionaries explored: plain ones, and ones with
\* an "=", white space, quotes, a variable reference, a comment sign or a
\* line break
EnvKeys == {<<"K">>, <<"J">>, <<>>, <<"#", "K">>, <<"K", "=", "J">>, <<" ", "K">>}
EnvVals ==
    {<<>>, <<"v">>, <<"w">>, <<" ", "v">>, <<"v", " ">>, <<"'", "v", "'">>,
     <<"\"", "v", "\"">>, <<"$", "J">>, <<"v", "=", "w">>, <<"v", NL, "w">>,
     <<"v", NL>>}
\* dictionaries of one entry, and of the two entries K and J in both orders
EnvDicts ==
    {<<[key |-> k, value |-> v]>> : k \in EnvKeys, v \in EnvVals} \cup
    {<<[key |-> <<"K">>, value |-> v], [key |-> <<"J">>, value |-> w]>> :
        v \in EnvVals, w \in EnvVals} \cup
    {<<[key |-> <<"J">>, value |-> v], [key |-> <<"K">>, value |-> w]>> :
        v \in EnvVals, w \in EnvVals}
\* files found: empty, one line with and without its newline, a trailing
\* empty line, a comment, a key on several lines, an indented line, a line
\* without a key
EnvFiles ==
    {<<>>,
     <<"=", "x", NL>>,
     <<"K", "=", "v", NL>>,
     <<"K", "=", "w">>,
     <<"K", "=", "w", NL, NL>>,
     <<"#", "c", NL, "J", "=", "w", NL, "K", "=", "w", NL>>,
     <<"K", "=", "w", NL, "J", "=", "v", NL, "K", "=", "v", NL>>,
     <<"K", "=", "w", NL, " ", "K", "=", "w", NL>>}
\* os.environ before loadenv: J unset, or set
EnvEnvirons == {{}, {<< <<"J">>, <<"x">> >>}}

\* save_env(path, values) is called
EnvSave ==
    /\ fs.calls < MaxSaves
    /\ ~fs.loaded
    /\ fs' = save_env(fs, fs.values)
    /\ UNCHANGED <<ws, app, h, g, lst, px, env, cli>>

\* loadenv(path) is called on the file save_env left
EnvLoad ==
    /\ fs.calls > 0
    /\ fs.exists
    /\ ~fs.loaded
    /\ fs' = loadenv(fs)
    /\ UNCHANGED <<ws, app, h, g, lst, px, env, cli>>

\* Every dictionary, file and environment above.
EnvInit ==
    /\ ws = InitWs(2)
    /\ app = InitApp
    /\ h = InitH("stdio", FALSE, 0)
    /\ g = InitG
    /\ lst = InitLst
    /\ px = InitPx(0)
    /\ env = Workload(0, 0, 0, 0)
    /\ cli = InitCli
    /\ \E d \in EnvDicts, e \in EnvEnvirons :
          \/ fs = [InitFs EXCEPT !.values = d, !.environ = e]
          \/ \E t \in EnvFiles :
                fs = [InitFs EXCEPT !.values = d, !.environ = e,
                                    !.exists = TRUE, !.text = t]

EnvNext == EnvSave \/ EnvLoad

EnvSpec == EnvInit /\ [][EnvNext]_vars

\* the keys store_credentials writes, in the order of its dictionary
CredentialKeys == <<"C8Y_HOST", "C8Y_USER", "C8Y_TENANT", "C8Y_TOKEN">>

\* the values of the client's fields; an empty or missing value is <<>>
ClientValue(c, key) ==
    IF key = "C8Y_HOST" THEN <<"https://t.example">>
    ELSE IF key = "C8Y_USER" THEN (IF c.user THEN <<"user">> ELSE <<>>)
    ELSE IF key = "C8Y_TENANT" THEN <<"t100">>
    ELSE IF key = "C8Y_TOKEN" THEN (IF c.token THEN <<"token">> ELSE <<>>)
    ELSE (IF c.password THEN <<"secret">> ELSE <<>>)

\* store_credentials that saves the password too
store_credentialsWithPassword(c, f) ==
    save_env(f, [i \in 1..5 |->
                   LET k == (CredentialKeys \o <<"C8Y_PASSWORD">>)[i]
                   IN  [key |-> <<k>>, value |-> ClientValue(c, k)]])

\* store_credentials(opts, client)
store_credentials(c, f) ==
    save_env(f, [i \in 1..Len(CredentialKeys) |->
                   [key |-> <<CredentialKeys[i]>>,
                    value |-> ClientValue(c, CredentialKeys[i])]])

(***************************************************************************)
(* pre_start_checks on the main thread: create_client, the device's        *)
(* managed object, get_config_id and the role check (core.py,             *)
(* c8yclient.py).                                                          *)
(***************************************************************************)
\* entries of c8y_RemoteAccessList explored per managed object
MaxEntries == 2
\* how the server answers a login or validation request: 200, 401 with
\* "TFA" in the body, any other 401, a server error
Statuses == {"200", "401tfa", "401", "500"}
\* configuration names: sequences of letters, upper and lower case
Names == {<<>>, <<"a">>, <<"A">>, <<"b">>}
Protocols == {"PASSTHROUGH", "passthrough", "VNC"}
\* what /user/currentUser holds: the admin role, other roles only, or a
\* response other than 200
RoleAnswers == {"admin", "other", "http_error"}

\* a request result: the client afterwards and "ok", "tfa"
\* (CumulocityMissingTFAToken) or "error" (any other exception)
Result(c, res) == [c |-> c, res |-> res]

\* CumulocityClient.validate_credentials; jsonMsg: the error response is
\* JSON with a "message" key, whose handling raises before the token and
\* the password are cleared
validate_credentials(c, status, jsonMsg) ==
    IF status = "200" THEN Result(c, "ok")
    ELSE IF jsonMsg THEN Result(c, "error")
    ELSE Result([c EXCEPT !.token = FALSE, !.password = FALSE], "error")

\* CumulocityClient.login_oauth
login_oauth(c, status) ==
    IF status = "200" THEN Result([c EXCEPT !.token = TRUE], "ok")
    ELSE IF status = "401tfa" /\ ~c.tfacode THEN Result(c, "tfa")
    ELSE Result(c, "error")

\* CumulocityClient.login
login(c, status, jsonMsg) ==
    IF c.supports_oauth THEN login_oauth(c, status)
    ELSE validate_credentials(c, status, jsonMsg)

\* create_client up to the retry loop: the host prompt,
\* validate_tenant_id (oauth: the login options offer OAUTH2_INTERNAL),
\* retries = 3
create_client_begin(c, oauth) ==
    LET c1 == IF ~c.disable_prompts /\ ~c.host
              THEN [c EXCEPT !.host = TRUE,
                             !.prompted = Append(@, "host")]
              ELSE c
    IN  [c1 EXCEPT !.supports_oauth = oauth, !.retries = 3,
                   !.success = FALSE, !.pc = "login"]

\* the except clauses of the retry loop
LoginHandler(c, res) ==
    IF res = "tfa"
    THEN [c EXCEPT !.tfacode = TRUE, !.prompted = Append(@, "tfa")]
    ELSE IF c.disable_prompts THEN c
    ELSE LET c1 == IF c.user THEN c
                   ELSE [c EXCEPT !.user = TRUE,
                                  !.prompted = Append(@, "user")]
         IN  IF c1.password THEN c1
             ELSE [c1 EXCEPT !.password = TRUE,
                             !.prompted = Append(@, "password")]

\* a retry loop that does not count its iterations
login_iterationUncounted(c, status, jsonMsg, storeOk) ==
    [c EXCEPT !.attempts = IF @ < 4 THEN @ + 1 ELSE @]

\* one iteration of the retry loop of create_client, and what follows the
\* loop when it ends; storeOk: store_credentials does not raise
login_iteration(c, status, jsonMsg, storeOk) ==
    LET r == IF c.token THEN validate_credentials(c, status, jsonMsg)
             ELSE login(c, status, jsonMsg)
        stores == r.res = "ok" /\ r.c.store
        res == IF stores /\ ~storeOk THEN "error" ELSE r.res
        c1 == [r.c EXCEPT !.stored = IF stores /\ storeOk THEN @ + 1 ELSE @,
                          !.attempts = @ + 1,
                          !.outcomes = Append(@, res)]
    IN  IF res = "ok" THEN [c1 EXCEPT !.success = TRUE, !.pc = "get_mor"]
        ELSE LET c2 == [LoginHandler(c1, res) EXCEPT !.retries = @ - 1]
             IN  IF c2.retries # 0 THEN c2
                 ELSE [c2 EXCEPT !.pc = "exit", !.exit_code = 2]

\* the main thread leaves pre_start_checks: with ctx.exit, or into
\* run_proxy_in_background, which starts the start_proxy thread
ApplyCliFile(c, f) ==
    /\ cli' = c
    /\ fs' = f
    /\ px' = IF c.pc = "exit"
             THEN [px EXCEPT !.main = "exit", !.exit_code = c.exit_code]
             ELSE IF c.pc = "started"
             THEN [px EXCEPT !.main = "wait_local", !.bg = "init"]
             ELSE px
    /\ UNCHANGED <<ws, app, h, g, lst, env>>

ApplyCli(c) == ApplyCliFile(c, fs)

CreateClient ==
    /\ cli.pc = "create_client"
    /\ \E oauth \in BOOLEAN : ApplyCli(create_client_begin(cli, oauth))

LoginAttempt ==
    /\ cli.pc = "login"
    /\ \E status \in Statuses, jsonMsg, storeOk \in BOOLEAN :
          /\ cli.wide => status = "200"
          /\ LET c == login_iteration(cli, status, jsonMsg, storeOk)
             IN  ApplyCliFile(c, IF c.stored > cli.stored
                                 THEN store_credentials(c, fs) ELSE fs)

\* str.casefold on the letters explored
Lower(ch) == IF ch = "A" THEN "a" ELSE IF ch = "B" THEN "b" ELSE ch
casefold(name) == [i \in 1..Len(name) |-> Lower(name[i])]

\* an outcome of get_config_id: ctx.exit(code), or the id returned
ConfigExit(code) == [exit |-> code, id |-> 0]
ConfigId(e) == [exit |-> 0, id |-> e.id]

IsPassthrough(e) == e.protocol = "PASSTHROUGH"

\* get_config_id with a missing fragment read as an empty list
get_config_idFragmentAsEmpty(mor, config) ==
    LET valid_configs == SelectSeq(mor.list, IsPassthrough)
        matches == SelectSeq(valid_configs,
                             LAMBDA e : casefold(e.name) = casefold(config))
    IN  IF valid_configs = <<>> THEN ConfigExit(6)
        ELSE IF config = <<>> THEN ConfigId(valid_configs[1])
        ELSE IF matches = <<>> THEN ConfigExit(7)
        ELSE ConfigId(matches[1])

\* get_config_id taking the last match instead of the first
get_config_idLastMatch(mor, config) ==
    LET valid_configs == SelectSeq(mor.list, IsPassthrough)
        matches == SelectSeq(valid_configs,
                             LAMBDA e : casefold(e.name) = casefold(config))
    IN  IF ~mor.frag THEN ConfigExit(5)
        ELSE IF valid_configs = <<>> THEN ConfigExit(6)
        ELSE IF config = <<>> THEN ConfigId(valid_configs[Len(valid_configs)])
        ELSE IF matches = <<>> THEN ConfigExit(7)
        ELSE ConfigId(matches[Len(matches)])

\* get_config_id(ctx, mor, config)
get_config_id(mor, config) ==
    LET valid_configs == SelectSeq(mor.list, IsPassthrough)
        matches == SelectSeq(valid_configs,
                             LAMBDA e : casefold(e.name) = casefold(config))
    IN  IF ~mor.frag THEN ConfigExit(5)
        ELSE IF valid_configs = <<>> THEN ConfigExit(6)
        ELSE IF config = <<>> THEN ConfigId(valid_configs[1])
        ELSE IF matches = <<>> THEN ConfigExit(7)
        ELSE ConfigId(matches[1])

\* pre_start_checks: an Exit raised inside the try block is raised again,
\* any other exception becomes ctx.exit(NOT_AUTHORIZED)
PreStartExit(c, code) == [c EXCEPT !.pc = "exit", !.exit_code = code]

\* pre_start_checks: client.get_managed_object returns m, or raises
get_managed_object(c, m, raises) ==
    IF raises THEN PreStartExit(c, 3)
    ELSE [c EXCEPT !.mor = [m EXCEPT !.fetched = TRUE], !.pc = "config"]

\* pre_start_checks going on to the role check with no configuration
resolve_configDeferred(c) == [c EXCEPT !.resolved = TRUE, !.pc = "role"]

\* pre_start_checks: config_id = get_config_id(ctx, mor, opts.config)
resolve_config(c) ==
    LET r == get_config_id(c.mor, c.config)
    IN  IF r.exit # 0
        THEN [PreStartExit(c, r.exit) EXCEPT !.resolved = TRUE]
        ELSE [c EXCEPT !.config_id = r.id, !.resolved = TRUE, !.pc = "role"]

\* CumulocityClient.validate_remote_access_role
validate_remote_access_role(answer) == answer = "admin"

\* pre_start_checks with the result of the role check ignored
check_roleIgnored(c) ==
    [c EXCEPT !.role_checked = TRUE, !.pc = "done",
              !.is_authorized = validate_remote_access_role(c.role)]

\* pre_start_checks: the role check and the return of the connection data
check_role(c) ==
    LET ok == validate_remote_access_role(c.role)
        c1 == [c EXCEPT !.role_checked = TRUE, !.is_authorized = ok]
    IN  IF ~ok THEN PreStartExit(c1, 8) ELSE [c1 EXCEPT !.pc = "done"]

\* the managed objects explored: no fragment, or a list of up to
\* MaxEntries entries whose ids are their positions
EntryShapes == [name : Names, protocol : Protocols]
WithIds(l) ==
    [i \in 1..Len(l) |->
        [id |-> i, name |-> l[i].name, protocol |-> l[i].protocol]]
Mors ==
    {NoMor} \cup
    {[frag |-> TRUE, list |-> WithIds(l), fetched |-> FALSE] :
        l \in UNION {[1..k -> EntryShapes] : k \in 0..MaxEntries}}
FewMors ==
    {NoMor,
     [frag |-> TRUE, fetched |-> FALSE,
      list |-> <<[id |-> 1, name |-> <<"a">>, protocol |-> "PASSTHROUGH"]>>]}

GetManagedObject ==
    /\ cli.pc = "get_mor"
    /\ \/ \E m \in (IF cli.wide THEN Mors ELSE FewMors) :
             ApplyCli(get_managed_object(cli, m, FALSE))
       \/ ApplyCli(get_managed_object(cli, NoMor, TRUE))

GetConfigId ==
    /\ cli.pc = "config"
    /\ ApplyCli(resolve_config(cli))

ValidateRole ==
    /\ cli.pc = "role"
    /\ ApplyCli(check_role(cli))

\* start_background: run_proxy_in_background(...)
RunProxyInBackground ==
    /\ cli.pc = "done"
    /\ ApplyCli([cli EXCEPT !.pc = "started"])

\* env files found at start: none, one with a password and an old token
\* that ends in an empty line, one that is up to date for a client with
\* user and token
CredentialFiles ==
    {<<>>,
     <<"C8Y_PASSWORD", "=", "secret", NL, "C8Y_TOKEN", "=", "old", NL, NL>>,
     <<"C8Y_HOST", "=", "https://t.example", NL, "C8Y_USER", "=", "user", NL,
       "C8Y_TENANT", "=", "t100", NL, "C8Y_TOKEN", "=", "token", NL>>}

\* Either every combination of credentials and prompts with two managed
\* objects, or valid credentials with every managed object and requested
\* name.
PreStartInit ==
    /\ ws = InitWs(2)
    /\ app = InitApp
    /\ h = InitH("stdio", FALSE, 0)
    /\ g = InitG
    /\ lst = InitLst
    /\ px = [InitPx(0) EXCEPT !.main = "pre_start", !.bg = "none"]
    /\ env = Workload(0, 0, 0, 0)
    /\ \E r \in RoleAnswers :
          \/ \E ho, t, pw, u, dp, st \in BOOLEAN :
                cli = [InitCli EXCEPT !.host = ho, !.token = t,
                          !.password = pw, !.user = u,
                          !.disable_prompts = dp, !.store = st, !.role = r]
          \/ \E n \in Names :
                cli = [InitCli EXCEPT !.config = n, !.role = r, !.wide = TRUE]
    /\ \E text \in CredentialFiles :
          /\ cli.store \/ text = <<>>
          /\ fs = [InitFs EXCEPT !.exists = text # <<>>, !.text = text]

PreStartNext ==
    \/ CreateClient
    \/ LoginAttempt
    \/ GetManagedObject
    \/ GetConfigId
    \/ ValidateRole
    \/ RunProxyInBackground

PreStartSpec == PreStartInit /\ [][PreStartNext]_vars

\* every combination of credentials and prompts, and the main thread always
\* takes its next step
LoginInit == PreStartInit /\ ~cli.wide
PreStartLive == LoginInit /\ [][PreStartNext]_vars /\ WF_vars(PreStartNext)

(***************************************************************************)
(* Properties.                                                             *)
(***************************************************************************)
\* the chunk numbers 1..n whose entry in the log satisfies Keep
Picked(log, Keep(_)) ==
    SelectSeq([i \in 1..Len(log) |-> i], LAMBDA i : Keep(log[i]))

IsYes(a) == a = "yes"
IsDecided(a) == a # "pending"
Written(e) == e.sink /\ ~e.err /\ ~e.fail

C1_WitnessTcp == h.mode = "tcp" /\ g.wsSent = <<1, 2>>

C4_No401Redial == ~g.dialAfter401

\* C7: with the reconnect limit 0 the client never gives up because of
\* the attempt count.
C7_ZeroIsUnlimited == ws.max_retries = 0 => ~g.gaveUp

C9_InboundInOrder == g.clientOut = Picked(g.frameLog, Written)

\* two frames delivered and written in order
C9_Witness == g.clientOut = <<1, 2>>

\* a listener has released its client connection and its socket or path
TcpReleased == ~h.connection /\ h.sock # "bound"
StdioReleased == h.reader # "open" /\ h.writer # "open"
UnixReleased == lst.unix.path = "removed" /\ ~lst.unix.srv.bound

\* C5: stop()/shutdown() of the TCP, Unix-socket and stdio listeners,
\* called any number of times from any state, never raises, leaves the
\* client connection and the listening socket or path released, and every
\* call after the first changes nothing.
C5_ShutdownIdempotent ==
    /\ ~h.raised /\ ~lst.unix.raised
    /\ (h.mode = "tcp" /\ h.stops >= 1) => TcpReleased
    /\ (h.mode = "stdio" /\ h.stops >= 1 /\ h.pc = "done") => StdioReleased
    /\ lst.unix.stops >= 1 => UnixReleased
    /\ ~h.laterChanged /\ ~lst.unix.laterChanged

\* C6 (as stated): in every state in which the ready signal is set the
\* listener is bound and used_port is the port it is bound to.
C6_ReadyImpliesBound ==
    px.local_ready => (px.L.bound /\ used_port(px) = px.L.port)

\* C6 (amended): the ready signal is set only after the listener reported
\* running within the wait timeout, and from then until the listener is
\* shut down the listener is bound and used_port is the port it is bound
\* to.
C6_ReadyImpliesBoundUntilShutdown ==
    px.local_ready =>
        /\ px.waited
        /\ used_port(px) = px.L.port
        /\ ~px.L.shut => px.L.bound

\* ready with a port the system assigned
C6_Witness ==
    px.local_ready /\ px.port = 0 /\ px.L.bound /\ used_port(px) = 40002

\* C10: once the subcommand has ended, the hook sets the stop signal, the
\* listener is shut down, the start_proxy thread ends and the join returns.
C10_TeardownCompletes ==
    (px.main = "closing") ~>
        (px.stop_signal /\ px.L.shut /\ ~px.L.bound /\ px.bg = "done"
            /\ px.main = "closed")

\* the teardown completed after the subcommand raised
C10_Witness ==
    /\ px.sub = "raised" /\ px.main = "closed" /\ px.bg = "done"
    /\ px.stop_signal /\ px.L.shut

\* C11: if the listener does not report running within wait_port_timeout,
\* the subcommand is never started and the main thread, which cannot get
\* the local ready signal, exits with TIMEOUT_WAIT_FOR_PORT (11).
C11_TimeoutExits ==
    px.bg_code = 11 =>
        /\ px.sub = "none" /\ px.spawned = <<>>
        /\ px.main \in {"wait_local", "exit"}
        /\ px.main = "exit" => px.exit_code = 11

\* the listener never reported running and the process exited with 11
C11_Witness ==
    /\ px.bg_code = 11 /\ ~px.waited /\ px.bg = "done"
    /\ px.main = "exit" /\ px.exit_code = 11

\* C12: the subcommand is started only after both ready signals are set
\* and with C8Y_HOST, PORT, DEVICE and WSLENV in its environment, PORT
\* being the port the listener is bound to and DEVICE the device's
\* external identity.
C12_SubcommandEnv ==
    px.sub # "none" =>
        /\ px.local_ready /\ px.ready
        /\ px.subEnviron.PORT = ToString(px.L.port)
        /\ px.subEnviron.DEVICE = px.device
        /\ px.subEnviron.C8Y_HOST = px.host
        /\ px.subEnviron.WSLENV = "PORT/u:DEVICE/u:C8Y_HOST/u"

\* a custom command running with the port the system assigned
C12_Witness ==
    /\ px.kind = "command" /\ px.sub = "running" /\ px.port = 0
    /\ px.subEnviron.PORT = "40001" /\ px.L.bound

\* C13: once the child process has returned exit code c, the exit code of
\* the process is c, also after the teardown hook has run.
C13_ExitCodePropagated == px.sub = "exited" => px.exit_code = px.sub_rc

\* ssh returned 99 and the teardown has completed
C13_Witness ==
    /\ px.kind = "ssh" /\ px.sub = "exited" /\ px.sub_rc = 99
    /\ px.main = "closed" /\ px.exit_code = 99

\* C14: when no ssh binary is found, connect ssh exits with SSH_NOT_FOUND
\* (10), no child process is started and no websocket is dialed.
C14_SshMissing ==
    (px.kind = "ssh" /\ px.found = "no") =>
        /\ px.exit_code = 10
        /\ px.spawned = <<>> /\ px.sub = "none"
        /\ ~px.client /\ g.dials = 0

\* ssh missing: exit code 10 after the teardown
C14_Witness ==
    /\ px.kind = "ssh" /\ px.found = "no" /\ px.main = "closed"
    /\ px.exit_code = 10 /\ g.dials = 0

\* the arguments of plugin command after os.path.expandvars
ExpandedArgs ==
    [i \in 1..Len(px.additional_args) |->
        expandvars(px.additional_args[i], px.environ)]

\* C15: for plugin command, when argv[0] is not on PATH the command is run
\* as bash -c "<arguments joined by spaces>"; COMMAND_NOT_FOUND (12) is
\* the exit code only when bash is absent too, and then no child process
\* is started.
C15_BashFallback ==
    px.kind = "command" =>
        /\ (px.found = "no" /\ px.bash = "yes") =>
              px.spawned = <<WhichPath("bash"), "-c", Join(ExpandedArgs)>>
        /\ (px.found = "no" /\ px.bash = "no") =>
              (px.exit_code = 12 /\ px.spawned = <<>> /\ px.sub = "none")
        /\ px.exit_code = 12 => (px.found = "no" /\ px.bash = "no")

\* echo is not on PATH and runs under bash with the port expanded
C15_Witness ==
    /\ px.kind = "command" /\ px.found = "no" /\ px.bash = "yes"
    /\ px.spawned = <<"/usr/bin/bash", "-c", "echo 40001">>

\* what the cited sentences require of get_config_id for the managed
\* object fetched and the name requested
SameName(a, b) ==
    Len(a) = Len(b) /\ \A i \in 1..Len(a) : Lower(a[i]) = Lower(b[i])
PassthroughAt == {i \in 1..Len(cli.mor.list) :
                    cli.mor.list[i].protocol = "PASSTHROUGH"}
MatchingAt == {i \in PassthroughAt :
                 cli.config = <<>> \/ SameName(cli.mor.list[i].name, cli.config)}
ExpectedExit ==
    IF ~cli.mor.frag THEN 5
    ELSE IF PassthroughAt = {} THEN 6
    ELSE IF MatchingAt = {} THEN 7
    ELSE 0

\* C16: get_config_id ends in exactly one outcome, by priority: exit 5
\* without the fragment, else exit 6 without a PASSTHROUGH entry, else
\* exit 7 when a name is requested that no PASSTHROUGH entry matches
\* case-insensitively, else a config id.
C16_ConfigOutcome ==
    cli.resolved =>
        IF ExpectedExit # 0
        THEN cli.pc = "exit" /\ px.exit_code = ExpectedExit /\ cli.config_id = 0
        ELSE cli.config_id # 0 /\ px.exit_code \notin {5, 6, 7}

\* two entries, a PASSTHROUGH one among them, none with the name asked
C16_Witness ==
    cli.resolved /\ px.exit_code = 7 /\ Len(cli.mor.list) = 2

\* C17: an id returned by get_config_id is the id of the first entry, in
\* list order, that has protocol PASSTHROUGH and, when a name is requested,
\* that name up to case.
C17_FirstMatch ==
    (cli.resolved /\ cli.config_id # 0) =>
        /\ MatchingAt # {}
        /\ LET first == CHOOSE i \in MatchingAt : \A j \in MatchingAt : i <= j
           IN  cli.config_id = cli.mor.list[first].id

\* two PASSTHROUGH entries match the name "A" up to case; the first wins
C17_Witness ==
    /\ cli.resolved /\ cli.config = <<"A">> /\ cli.config_id = 1
    /\ MatchingAt = {1, 2}

\* C18: a user without ROLE_REMOTE_ACCESS_ADMIN and a device with a
\* matching PASSTHROUGH configuration: the process exits with 8 at the
\* role check, and neither the start_proxy thread nor a child process is
\* started.
C18_MissingRole ==
    (cli.resolved /\ ExpectedExit = 0 /\ cli.role # "admin") =>
        /\ cli.pc \in {"role", "exit"}
        /\ cli.pc = "exit" => (cli.role_checked /\ px.exit_code = 8)
        /\ px.bg = "none" /\ px.sub = "none" /\ px.spawned = <<>>

\* exit 8 for a user holding other roles only
C18_Witness ==
    /\ cli.role = "other" /\ cli.config_id # 0 /\ cli.role_checked
    /\ px.main = "exit" /\ px.exit_code = 8

\* C19: no usable PASSTHROUGH configuration and no admin role: the exit
\* code is the configuration's (5, 6 or 7), and the role is never checked.
C19_ConfigBeforeRole ==
    (cli.resolved /\ ExpectedExit # 0 /\ cli.role # "admin") =>
        /\ px.main = "exit" /\ px.exit_code = ExpectedExit
        /\ ~cli.role_checked

\* exit 6 for a user without the role
C19_Witness ==
    /\ cli.role = "other" /\ cli.resolved /\ px.exit_code = 6
    /\ Len(cli.mor.list) = 1

\* the retry loop of create_client: its counters and what it has decided
LoginInv ==
    LET n == Len(cli.outcomes)
        failed == \A i \in 1..n : cli.outcomes[i] # "ok"
    IN  /\ cli.attempts <= 3 /\ n = cli.attempts
        /\ cli.pc = "login" => (cli.retries > 0 /\ failed
                                /\ cli.retries + cli.attempts = 3)
        /\ cli.success <=> (n > 0 /\ cli.outcomes[n] = "ok")
        /\ \A i \in 1..(n - 1) : cli.outcomes[i] # "ok"
        /\ (cli.pc # "login" /\ n > 0 /\ failed) =>
              (cli.attempts = 3 /\ cli.pc = "exit" /\ px.exit_code = 2)
        /\ px.exit_code = 2 => (cli.attempts = 3 /\ failed)

\* C20: create_client makes at most 3 attempts, returns the client at the
\* first attempt that succeeds, exits with NO_SESSION (2) after the third
\* failed attempt, and its retry loop ends whatever the server answers.
C20_LoginBounded ==
    /\ []LoginInv
    /\ (cli.pc = "login") ~> (cli.pc # "login")

\* three failed attempts, the first asking for a TFA code
C20_Witness ==
    /\ cli.attempts = 3 /\ px.exit_code = 2
    /\ cli.outcomes = <<"tfa", "error", "error">>

\* the lines of the env file, none when it does not exist
FileLines(f) == IF f.exists THEN splitlines(f.text) ELSE <<>>

\* the env file before the first save_env call
FirstFile == IF fs.calls = 0 THEN FileOf(fs) ELSE fs.before[1]

\* C21: the env file differs from the one found at start only after a
\* login attempt has succeeded, and then only in lines whose key is
\* C8Y_HOST, C8Y_USER, C8Y_TENANT or C8Y_TOKEN: no line with the key
\* C8Y_PASSWORD and no line holding the password is added or changed.
C21_StoredKeys ==
    LET old == FileLines(FirstFile)
        new == FileLines(fs)
        Kept(i) == i <= Len(old) /\ new[i] = old[i]
        Keys == {<<CredentialKeys[i]>> : i \in 1..Len(CredentialKeys)}
    IN  /\ FileOf(fs) # FirstFile =>
              (cli.success /\ fs.calls > 0 /\ "ok" = cli.outcomes[Len(cli.outcomes)])
        /\ fs.calls > 0 => cli.success
        /\ \A i \in 1..Len(new) :
              /\ partition(new[i]).key \notin Keys => Kept(i)
              /\ partition(new[i]).key = <<"C8Y_PASSWORD">> => Kept(i)
              /\ (\E j \in 1..Len(new[i]) : new[i][j] = "secret") => Kept(i)

\* the login of a user with a password succeeds through OAuth and the
\* token is stored in a file that did not exist
C21_Witness ==
    /\ cli.success /\ cli.password /\ fs.calls = 1 /\ ~FirstFile.exists
    /\ fs.returns = <<TRUE>>
    /\ \E i \in 1..Len(FileLines(fs)) :
          FileLines(fs)[i] = <<"C8Y_TOKEN", "=", "token">>

\* what loadenv is to find after save_env: every entry of the dictionary
RoundTrip ==
    /\ ~fs.raised
    /\ \A i \in 1..Len(fs.values) :
          /\ HasEnv(fs.environ, fs.values[i].key)
          /\ GetEnv(fs.environ, fs.values[i].key) = fs.values[i].value

PlainKey(k) ==
    /\ k # <<>>
    /\ k[1] \notin Whitespace \cup {"#", ";"}
    /\ \A i \in 1..Len(k) : k[i] \notin {"=", NL}

\* a value that loadenv reads back as it is: no white space at its end, no
\* line break, no "$", not wrapped in quotes
PlainValue(v) ==
    /\ v = <<>> \/ v[Len(v)] \notin Whitespace
    /\ \A i \in 1..Len(v) : v[i] \notin {NL, "$"}
    /\ ~(v # <<>> /\ v[1] = v[Len(v)] /\ v[1] \in {"'", "\""})

DictKeys == {fs.values[i].key : i \in 1..Len(fs.values)}

\* no line of the file is read by loadenv as an assignment to an empty
\* key, or to a key of the dictionary that save_env reads otherwise
PlainFile(f) ==
    \A n \in 1..Len(FileLines(f)) :
        LET line == strip(FileLines(f)[n], Whitespace)
            key == partition(line).key
        IN  \/ line = <<>>
            \/ line[1] \in {"#", ";"}
            \/ /\ key # <<>>
               /\ key \in DictKeys => partition(FileLines(f)[n]).key = key

Before(n) == fs.before[n]
After(n) == IF n < fs.calls THEN fs.before[n + 1] ELSE FileOf(fs)

\* the lines the claim expects from a call on the lines old: lines of a
\* key of the dictionary replaced, the others kept, new keys appended
Expected(old) ==
    LET D == fs.values
        At(line) == CHOOSE i \in 1..Len(D) : D[i].key = partition(line).key
        Known(d) == \E n \in 1..Len(old) : partition(old[n]).key = d.key
        new == SelectSeq(D, LAMBDA d : ~Known(d))
    IN  [n \in 1..Len(old) |->
            IF partition(old[n]).key \in DictKeys
            THEN EnvLine(D[At(old[n])].key, D[At(old[n])].value)
            ELSE old[n]]
        \o [j \in 1..Len(new) |-> EnvLine(new[j].key, new[j].value)]

\* C23 (as stated): save_env keeps every line that is not a key of the
\* values unchanged and in place, updates existing keys in place, appends
\* new keys, rewrites the file and returns True only if some line
\* changed; a second call with the same values returns False and leaves
\* the file untouched.
C23_SaveEnvFrame ==
    /\ \A n \in 1..fs.calls :
          LET old == FileLines(Before(n))
          IN  /\ fs.returns[n] = (Expected(old) # old)
              /\ fs.returns[n] =>
                    (After(n).exists /\ FileLines(After(n)) = Expected(old))
              /\ ~fs.returns[n] => After(n) = Before(n)
    /\ fs.calls >= 2 => (~fs.returns[2] /\ After(2) = After(1))

\* a dictionary whose entries KEY=VALUE lines can carry
Representable ==
    \A i \in 1..Len(fs.values) :
        /\ fs.values[i].key # <<>>
        /\ \A j \in 1..Len(fs.values[i].key) :
              fs.values[i].key[j] \notin {"=", NL}
        /\ \A j \in 1..Len(fs.values[i].value) : fs.values[i].value[j] # NL

\* C23 (amended): for keys that are not empty and hold no "=" and for
\* keys and values without a line break, save_env does as stated, except
\* that a rewrite drops the empty lines at the end of the file and ends
\* the file with one newline.
C23_SaveEnvFramePlain ==
    Representable =>
    /\ \A n \in 1..fs.calls :
          LET old == FileLines(Before(n))
          IN  /\ fs.returns[n] = (Expected(old) # old)
              /\ fs.returns[n] =>
                    /\ After(n).exists
                    /\ After(n).text =
                          JoinLines(rstrip(Expected(old), {<<>>})) \o <<NL>>
              /\ ~fs.returns[n] => After(n) = Before(n)
    /\ fs.calls >= 2 => (~fs.returns[2] /\ After(2) = After(1))

\* K is updated in place and J appended; the second call changes nothing
C23_Witness ==
    /\ fs.calls = 2 /\ fs.returns = <<TRUE, FALSE>>
    /\ FirstFile.text = <<"K", "=", "v", NL>>
    /\ fs.text = <<"K", "=", "w", NL, "J", "=", "w", NL>>

(***************************************************************************)
(* The stdio proxy with a positive reconnect limit and an upstream that    *)
(* is either reachable or refuses every handshake, with one chunk, one     *)
(* frame and one dial more than the limits need.  The library thread and   *)
(* the handler thread both keep running.                                   *)
(***************************************************************************)
PositiveRetries == {1, 2}

GiveUpInit ==
    /\ \E n \in PositiveRetries : ws = InitWs(n)
    /\ app = InitApp
    /\ h = InitH("stdio", FALSE, 0)
    /\ g = InitG
    /\ lst = InitLst
    /\ px = InitPx(0)
    /\ \E u \in BOOLEAN :
          env = [reads |-> 1, frames |-> 1, dials |-> 3, conns |-> 1,
                 up |-> u]
    /\ cli = InitCli
    /\ fs = InitFs

\* the handshake succeeds only when the upstream is reachable
UpHandshakeOk ==
    /\ env.up
    /\ WsHandshakeOk

UpWsNext ==
    \/ UpHandshakeOk
    \/ WsHandshakeFail
    \/ WsLoss
    \/ WsErrorCallback
    \/ WsCloseCallback
    \/ WsMessage
    \/ Tick

GiveUpNext == UpWsNext \/ StdioNext

GiveUpLive ==
    GiveUpInit /\ [][GiveUpNext]_vars /\ WF_vars(UpWsNext) /\ WF_vars(StdioNext)

(***************************************************************************)
(* Server mode: start_proxy runs on the main thread, a client outside      *)
(* the process connects to the listener and the handler of the accepted    *)
(* connection dials.  The listener worker has no failure of its own, so    *)
(* that it ends only when the websocket client asks for it.                *)
(***************************************************************************)
\* the shutdown request as the specification describes it (section 4.1):
\* the client that gives up asks the listener to shut down
ServerShutdownRequested(p) == [p EXCEPT !.L = ProxyServerShutdown(@)]

\* start_proxy, the end of the finally block on the main thread:
\* ctx.exit(exit_code) with the function's local exit_code
MainThreadExit(p) == ctx_exit(p, p.bg_code)

ServerInit ==
    /\ ws = InitWs(2)
    /\ app = InitApp
    /\ h = InitH("tcp", FALSE, 0)
    /\ g = InitG
    /\ lst = InitLst
    /\ \E p \in AskedPorts : px = [InitPx(p) EXCEPT !.main = "server"]
    /\ env = Workload(0, 0, 3, 1)
    /\ cli = InitCli
    /\ fs = InitFs

\* a client connects to the listener; the handler dials unless the
\* websocket is open
ServerClientConnects ==
    /\ px.L.thread = "serving"
    /\ ~px.L.shut
    /\ ~px.client
    /\ LET w == IF is_open(ws) THEN World ELSE connect(World)
       IN  /\ ws' = w.ws
           /\ app' = w.app
           /\ h' = w.h
           /\ g' = w.g
    /\ px' = [px EXCEPT !.client = TRUE]
    /\ UNCHANGED <<lst, env, cli, fs>>

\* run_forever's teardown calls on_close; a client that gives up asks
\* the listener to shut down
ServerCloseCallback ==
    /\ app.st = "lost"
    /\ app.err = "none"
    /\ LET w == _on_ws_close([World EXCEPT !.app.st = "none"])
       IN  /\ w.g.dials <= env.dials
           /\ ws' = w.ws
           /\ app' = w.app
           /\ h' = w.h
           /\ g' = w.g
           /\ px' = IF w.g.gaveUp /\ ~g.gaveUp
                    THEN ServerShutdownRequested(px) ELSE px
    /\ UNCHANGED <<lst, env, cli, fs>>

ServerExit ==
    /\ px.main = "server"
    /\ px.bg = "done"
    /\ ApplyPx(MainThreadExit(px))

ServerNext ==
    \/ BgNext
    \/ ListenerStarts
    \/ ListenerStopped
    \/ ServerClientConnects
    \/ WsHandshakeOk
    \/ WsHandshakeFail
    \/ WsLoss
    \/ WsErrorCallback
    \/ ServerCloseCallback
    \/ Tick
    \/ ServerExit

ServerSpec == ServerInit /\ [][ServerNext]_vars

(***************************************************************************)
(* The attempt counter under its three writers: connect() on the handler   *)
(* thread (first dial), reconnect() -> connect() on the library thread,    *)
(* and the callback of threading.Timer on the timer thread.  The close     *)
(* callback is taken in three steps (budget test, read of the counter,     *)
(* write of the counter) and the timer in two (the wait ends, the          *)
(* callback runs), since no lock orders them.                              *)
(***************************************************************************)
\* the library thread outside connect(), no value read, no timer callback
\* on its way
RaceIdle == [inc |-> "idle", loaded |-> 0, firing |-> FALSE]

\* _on_ws_close up to the budget test of reconnect(): the whole callback
\* when the client gives up, else the way to connect()
on_close_check(w) ==
    LET w1 == _connection_timer_cancel([w EXCEPT !.ws.ws_open_event = FALSE])
        w2 == IF w1.ws.web_socket THEN WebSocketAppClose(w1) ELSE w1
    IN  IF BudgetExhausted(w2.ws) THEN _on_ws_close(w)
        ELSE [w2 EXCEPT !.ws.web_socket = FALSE, !.ws.inc = "checked"]

\* connect(): the open event is cleared and "connection_attempts += 1"
\* reads the counter
connect_load(w) ==
    [w EXCEPT !.ws.ws_open_event = FALSE,
              !.ws.loaded = w.ws.connection_attempts,
              !.ws.inc = "loaded"]

\* connect(): "connection_attempts += 1" writes the value read plus one,
\* and the rest of connect() follows
connect_store(w) ==
    [connect(w) EXCEPT !.ws.connection_attempts = w.ws.loaded + 1,
                       !.ws.inc = "idle"]

\* Timer.run: the wait for the interval ends without a cancel; the
\* callback is called next
timer_wake(w) ==
    [w EXCEPT !.ws.timer = "fired", !.ws.timerLeft = 0, !.ws.firing = TRUE,
              !.g.timerFired = TRUE]

\* Timer.run calls reset_connection_attempts
timer_call(w) == [reset_connection_attempts(w) EXCEPT !.ws.firing = FALSE]

RaceInit ==
    /\ \E n \in Retries : ws = InitWs(n) @@ RaceIdle
    /\ app = InitApp
    /\ h = InitH("stdio", FALSE, 0)
    /\ g = InitG
    /\ lst = InitLst
    /\ px = InitPx(0)
    /\ env = Workload(0, 0, MaxDials, 1)
    /\ cli = InitCli
    /\ fs = InitFs

RaceClose ==
    /\ app.st = "lost"
    /\ app.err = "none"
    /\ ws.inc = "idle"
    /\ Apply(on_close_check([World EXCEPT !.app.st = "none"]))

RaceLoad ==
    /\ ws.inc = "checked"
    /\ g.dials < env.dials
    /\ Apply(connect_load(World))

RaceStore ==
    /\ ws.inc = "loaded"
    /\ Apply(connect_store(World))

\* one unit of time passes
RaceTick ==
    /\ ws.timer = "armed" \/ (app.st = "open" /\ g.openAge < StableTicks)
    /\ LET w1 == [World EXCEPT !.g.openAge =
                      IF app.st = "open" /\ @ < StableTicks THEN @ + 1 ELSE @]
       IN  Apply(IF ws.timer = "armed"
                 THEN IF ws.timerLeft <= 1 THEN timer_wake(w1)
                      ELSE [w1 EXCEPT !.ws.timerLeft = @ - 1]
                 ELSE w1)

RaceTimerCall ==
    /\ ws.firing
    /\ Apply(timer_call(World))

RaceNext ==
    \/ StdioServe
    \/ WsHandshakeOk
    \/ WsHandshakeFail
    \/ WsLoss
    \/ WsErrorCallback
    \/ RaceClose
    \/ RaceLoad
    \/ RaceStore
    \/ RaceTick
    \/ RaceTimerCall

RaceSpec == RaceInit /\ [][RaceNext]_vars

\* C24: once the handler has called stop() on end of input, the client
\* never dials again.
C24_NoDialAfterStop == ~g.dialAfterStop

\* the close callback runs in this step
CloseStep == app.st = "lost" /\ app.err = "none" /\ app'.st # "lost"

\* the attempts have reached a positive reconnect limit
LimitReached(c) == c.max_retries >= 1 /\ c.connection_attempts >= c.max_retries

\* C25: a close callback that finds the attempts at the limit calls the
\* shutdown request once and dials nothing, and no dial follows a give-up;
\* when every handshake fails, the client gives up eventually, after at
\* most as many dials as the limit allows.
C25_GiveUp ==
    /\ [][(CloseStep /\ LimitReached(ws)) =>
            /\ g'.shutdownReqs = g.shutdownReqs + 1
            /\ h'.shutdown_event
            /\ g'.gaveUp
            /\ g'.dials = g.dials
            /\ app'.st = "none"]_vars
    /\ [][g.gaveUp => g'.dials = g.dials]_vars
    /\ [](~env.up => g.dials <= ws.max_retries)
    /\ (~env.up ~> g.gaveUp)

\* limit 2, unreachable upstream: two dials, then one shutdown request
C25_Witness ==
    /\ ~env.up /\ ws.max_retries = 2 /\ g.gaveUp
    /\ g.dials = 2 /\ g.shutdownReqs = 1 /\ h.shutdown_event

\* C26: once a handshake was rejected with 401, the process, whose
\* listener had come up in time, ends with the exit code NOT_AUTHORIZED (3).
C26_Exit401 ==
    (g.saw401 /\ px.waited /\ px.main = "closing") => px.exit_code = 3

\* send_binary is running: between its call and its return
InSendBinary(hr) == hr.pc \in {"sb_check", "sb_wait", "sb_send"}

\* C27: whatever the other threads do meanwhile, send_binary ends by
\* returning to the read loop, with the chunk sent on an open websocket or
\* dropped, and never by an exception.
C27_SendNeverRaises ==
    [][(InSendBinary(h) /\ ~InSendBinary(h')) =>
          /\ h'.pc = "loop"
          /\ \/ g'.wsSent = g.wsSent
             \/ /\ g'.wsSent = Append(g.wsSent, h.cur)
                /\ ws.web_socket /\ app.st = "open"]_vars

\* C28: the client has at most one upstream WebSocket: every dial, by the
\* handler or by reconnect(), starts when the application before it has
\* ended (its run_forever has reached the close callback), so that no
\* callback of an older application can close or replace a newer one.
C28_OneWebSocket ==
    /\ ~g.dialWhileLive
    /\ (app.st \in {"dialing", "open"} /\ h.pc # "stopping"
          /\ ~g.stopped) => ws.web_socket

\* a redial by the close callback that ran inside the handler's stop(),
\* between its two statements
C28_Witness ==
    /\ h.pc = "stopping" /\ g.dials = 2 /\ app.st = "dialing"
    /\ ws.web_socket

\* C30: connection_attempts goes back to 0 only through the stability
\* timer of a connection that is open and has been open for the whole
\* period; a step that ends a connection leaves no timer behind that
\* could still reset the counter.
C30_ResetOnlyWhenStable ==
    [][(ws.connection_attempts # 0 /\ ws'.connection_attempts = 0) =>
          /\ ws.timer = "armed"
          /\ app.st = "open"
          /\ g'.openAge >= StableTicks]_vars

\* C29: the writes of connection_attempts do not interleave: between the
\* budget test of reconnect() and the write of the incremented value in
\* connect() no other thread changes the counter, so that the value
\* written is the value tested plus one and no reset is overwritten.
C29_NoInterleavedUpdate ==
    [][(ws.inc # "idle" /\ ws'.inc = ws.inc) =>
          ws'.connection_attempts = ws.connection_attempts]_vars

(***************************************************************************)
(* TCPServer with one client after another: every script mode and idle     *)
(* timeout, up to MaxConns clients, one chunk per client, and the          *)
(* websocket opening, failing and being lost at any moment.                *)
(***************************************************************************)
MaxConns == 2

TcpInit ==
    /\ ws = InitWs(2)
    /\ app = InitApp
    /\ \E sm \in BOOLEAN, tt \in {0, 1} : h = InitH("tcp", sm, tt)
    /\ g = InitG
    /\ lst = InitLst
    /\ px = InitPx(0)
    /\ env = Workload(1, 0, 2, MaxConns)
    /\ cli = InitCli
    /\ fs = InitFs

TcpLoopNext ==
    \/ WsHandshakeOk
    \/ WsHandshakeFail
    \/ WsLoss
    \/ WsErrorCallback
    \/ WsCloseCallback
    \/ Tick
    \/ TcpNext

TcpSpec == TcpInit /\ [][TcpLoopNext]_vars

\* C31: the server holds one client connection at a time (the connection
\* field is set exactly while an accepted client is not closed), and a
\* client is accepted only when no client was accepted before or the
\* client before it has been closed.
C31_OneClient ==
    /\ [](h.connection => (h.conns >= 1 /\ ~h.clientClosed))
    /\ [][h'.conns = h.conns + 1 =>
            /\ ~h.connection
            /\ h.conns = 0 \/ h.clientClosed]_vars

\* the second client is being served after the first was closed
C31_Witness ==
    /\ h.conns = 2 /\ h.connection /\ ~h.clientClosed /\ h.pc = "recv"

C32_WitnessScript ==
    /\ h.script_mode /\ h.conns = 1 /\ h.pc = "off"

\* C33: with tcp_timeout = 0 no client is closed for inactivity; with
\* tcp_timeout = T > 0 a client that has been silent for T receive
\* timeouts in a row is closed, and none is closed for inactivity before;
\* received data sets the count back to 0.
C33_IdleTimeout ==
    /\ []((h.pc = "recv" /\ h.connection /\ h.tcp_timeout > 0) =>
            h.counter < h.tcp_timeout)
    /\ [][(h.pc = "recv" /\ h'.pc = "after" /\ h'.counter = h.counter
            /\ h.counter > 0) =>
            (h.tcp_timeout > 0 /\ h.counter >= h.tcp_timeout)]_vars
    /\ [][g'.nread = g.nread + 1 => h'.counter = 0]_vars

\* C34: once a write of an inbound frame to the local client has failed,
\* no later frame is written or tried, and no failure of the sink reaches
\* the websocket's message callback.
C34_StickyError ==
    /\ \A i, j \in 1..Len(g.frameLog) :
          (i < j /\ g.frameLog[i].fail) =>
              ~(g.frameLog[j].sink /\ ~g.frameLog[j].err)
    /\ ~h.sinkRaised

(***************************************************************************)
(* start_proxy with every way out of its try block: besides the paths of   *)
(* ProxySpec, an exception or an interrupt raised at any statement after   *)
(* the server was built.                                                   *)
(***************************************************************************)
\* an exception inside the try block: "except Exception" records UNKNOWN
\* for an exception with a message; a KeyboardInterrupt passes it by
Raised(p, caught) ==
    [p EXCEPT !.bg = "finally", !.bg_code = IF caught THEN 9 ELSE @]

BgRaises ==
    /\ px.bg \in {"wait_running", "record", "signal", "loop"}
    /\ \E caught \in BOOLEAN : ApplyPx(Raised(px, caught))

ExitPathNext == ProxyNext \/ BgRaises

ExitPathSpec == ProxyInit /\ [][ExitPathNext]_vars

Hosts ==
    { HTTPS \o Sep \o <<"t.example">>,
      HTTP \o Sep \o <<"t.example">>,
      HTTPS \o Sep \o <<"my-">> \o HTTPS \o <<".example">>,
      WSS \o Sep \o <<"t.example">>,
      <<"t.example">> }

UrlInit ==
    /\ \E n \in Retries, hst \in Hosts :
          /\ ws = [InitWs(n) EXCEPT !.host = hst]
          /\ env = Workload(1, 1, 3, 1) @@ [host |-> hst]
    /\ app = InitApp
    /\ h = InitH("stdio", FALSE, 0)
    /\ g = InitG
    /\ lst = InitLst
    /\ px = InitPx(0)
    /\ cli = InitCli
    /\ fs = InitFs

UrlSpec == UrlInit /\ [][Next]_vars

\* the base the websocket is to be dialed at: https:// becomes wss://,
\* http:// becomes ws://
WsBase(base) ==
    IF startswith(base, HTTPS \o Sep)
    THEN WSS \o SubSeq(base, Len(HTTPS) + 1, Len(base))
    ELSE IF startswith(base, HTTP \o Sep)
         THEN <<"ws">> \o SubSeq(base, Len(HTTP) + 1, Len(base))
         ELSE base

\* C36: for an https:// or http:// base, the URL of every websocket
\* application connect() builds, reconnects included, is the base with
\* https:// rewritten to wss:// or http:// to ws://, followed by
\* /service/remoteaccess/client/{deviceId}/configurations/{configId}.
C36_DialedUrl ==
    (/\ ws.url # <<>>
     /\ startswith(env.host, HTTPS \o Sep) \/ startswith(env.host, HTTP \o Sep))
        => ws.url = connect_url(WsBase(env.host), ws.device_id, ws.config_id)

\* C36 for the plain https base, the second dial included
C36_HttpsRedial ==
    (ws.url # <<>> /\ env.host = HTTPS \o Sep \o <<"t.example">>)
        => /\ ws.url = connect_url(WsBase(env.host), ws.device_id, ws.config_id)
           /\ ws.host = WSS \o Sep \o <<"t.example">>

\* C37: with prompts disabled create_client asks the user for nothing,
\* also when the server answers that a TFA code is required, and ends
\* with NO_SESSION (2) when the login attempts have failed.
C37_NoPrompts ==
    cli.disable_prompts =>
        /\ cli.prompted = <<>>
        /\ (cli.pc = "exit" /\ ~cli.success) => cli.exit_code = 2

\* C37 without the TFA answer: with prompts disabled, host, user and
\* password are never asked for
C37_NoCredentialPrompts ==
    cli.disable_prompts =>
        \A i \in 1..Len(cli.prompted) : cli.prompted[i] = "tfa"

\* C38: whenever is_open() answers true the client holds a websocket
\* object, and is_open() answers false once the handler's call of stop()
\* has returned.
C38_OpenMeansSocket ==
    /\ is_open(ws) => ws.web_socket
    /\ (g.stopped /\ h.pc = "done") => ~is_open(ws)

(***************************************************************************)
(* The pid file (pid.py).  The file is a sequence of lines, a line the     *)
(* sequence of its comma separated fields; the first field is the text of  *)
(* a process id.                                                           *)
(***************************************************************************)
\* lines explored in a pid file
MaxPidLines == 2

\* texts of process ids, and the users that tell lines of one process apart
PidTexts == {"7", "8", "08"}
Pids == {7, 8}
PidUsers == {"u1", "u2"}

\* int() on the texts explored
int(text) == IF text = "7" THEN 7 ELSE 8

\* get_pid_from_line: int(str.split(line, ",")[0])
get_pid_from_line(line) == int(line[1])

PidLines == {<<t, u>> : t \in PidTexts, u \in PidUsers}

PidFiles ==
    UNION {[1..n -> PidLines] : n \in 0..MaxPidLines}

\* open(pidfile, "w+"): the file is created or truncated to length zero
open_w_plus(text) == <<>>

\* the body of the with block: the lines read are written back without
\* those of pid, and the file is truncated after them
rewrite(text, pid) ==
    SelectSeq(text, LAMBDA line : get_pid_from_line(line) # pid)

\* clean_pid_file: f is the pid file, [exists, text]
clean_pid_file(f, pid) ==
    IF f.exists
    THEN LET text == rewrite(open_w_plus(f.text), pid)
         IN  IF text = <<>> THEN [exists |-> FALSE, text |-> <<>>]
             ELSE [exists |-> TRUE, text |-> text]
    ELSE f

\* the pid file, the pid given to the last call of clean_pid_file and the
\* number of calls
InitPidFile(text) ==
    [exists |-> text # <<>>, text |-> text, pid |-> 0, calls |-> 0]

PidInit ==
    /\ ws = InitWs(2)
    /\ app = InitApp
    /\ h = InitH("stdio", FALSE, 0)
    /\ g = InitG
    /\ lst = InitLst
    /\ px = InitPx(0)
    /\ env = Workload(0, 0, 0, 0)
    /\ cli = InitCli
    /\ \E text \in PidFiles : fs = InitPidFile(text)

\* start_proxy's finally block, or upsert_pid_file, of a process pid
CleanPidFile ==
    /\ fs.calls < 2
    /\ \E pid \in Pids :
          LET f == clean_pid_file([exists |-> fs.exists, text |-> fs.text], pid)
          IN  fs' = [exists |-> f.exists, text |-> f.text, pid |-> pid,
                     calls |-> fs.calls + 1]
    /\ UNCHANGED <<ws, app, h, g, lst, px, env, cli>>

\* a line in the format of get_pid_file_text is added to the pid file from
\* outside the calls explored
OtherProcessAppends ==
    /\ Len(fs.text) < MaxPidLines
    /\ \E line \in PidLines :
          fs' = [fs EXCEPT !.exists = TRUE, !.text = Append(@, line)]
    /\ UNCHANGED <<ws, app, h, g, lst, px, env, cli>>

PidNext == CleanPidFile \/ OtherProcessAppends

PidSpec == PidInit /\ [][PidNext]_vars

\* C39: after clean_pid_file(pidfile, pid) on an existing file, the file
\* holds the lines it held before whose process id is not pid, unchanged
\* and in their order, and it is deleted exactly when no such line is left.
C39_CleanFrame ==
    [][(fs'.calls = fs.calls + 1 /\ fs.exists) =>
          LET kept == SelectSeq(fs.text,
                         LAMBDA line : get_pid_from_line(line) # fs'.pid)
          IN  /\ fs'.text = kept
              /\ fs'.exists = (kept # <<>>)]_vars

====
